---- MODULE Spec2Model ----
(***************************************************************************)
(* Model of the SimpleApp operator's reconciler                            *)
(* (internal/controller/simpleapp_controller.go, the variant that also     *)
(* manages an Ingress) running against an API server that other actors     *)
(* (users, the deployment controller, the garbage collector) write to.     *)
(*                                                                         *)
(* Conventions:                                                            *)
(*   - a Go pointer is a sequence of length 0 (nil) or 1 (the pointee);    *)
(*   - an object that does not exist is NoObj;                             *)
(*   - resourceVersions and uids are only ever compared for equality with  *)
(*     those of the same object, so an object's resourceVersion counts the *)
(*     writes to it and its uid counts the creations under its name.       *)
(***************************************************************************)
EXTENDS Integers, Sequences, FiniteSets, TLC

\* ------------------------------------------------------------------ bounds
\* number of steps the other actors may take in one behaviour
MaxEnvSteps == 1

\* ------------------------------------------------------- input value sets
Names == {"a", "a-ingress"}
Namespaces == {"default", "prod"}
Keys == [namespace : Namespaces, name : Names]
\* the keys users submit declarations for and the worker is asked to
\* reconcile
DeclaredKeys == {[namespace |-> "default", name |-> "a"]}

\* declarations a user submits: one declaration whose two ports differ, and one
\* edit of each field
BaseSpec == [image |-> "nginx:latest", replicas |-> 2, containerPort |-> 80, servicePort |-> 8080]
DeclSpecs ==
    { BaseSpec,
      [BaseSpec EXCEPT !.image = "nginx:1.25"],
      [BaseSpec EXCEPT !.replicas = 3],
      [BaseSpec EXCEPT !.containerPort = 8081],
      [BaseSpec EXCEPT !.servicePort = 80] }

\* values of INGRESS_CLASS_NAME; "" is unset
IngressClasses == {"", "nginx", "traefik"}

\* the class the overlays start the operator with, or none
InitClasses == {"", "nginx"}

\* edits other actors make to live objects: the fields they overwrite
DeploymentEdits ==
    { [replicas |-> 5],
      [image |-> "busybox"],
      [labels |-> "edited"],
      [replicas |-> 5, labels |-> "edited"] }
ServiceEdits ==
    { [port |-> 9090],
      [targetPort |-> 3000],
      [extraPort |-> 9443],
      [selector |-> "edited", type |-> "NodePort"],
      [port |-> 9090, extraPort |-> 9443, selector |-> "edited", type |-> "NodePort"] }
DriftClasses == {<<>>, <<"other">>}
ReadyCounts == {0, 2}

\* ------------------------------------------------------------------- state
VARIABLES
    cluster,          \* the API server's store: ObjIds -> object or NoObj
    incarnation,      \* per object id, the number of objects created under it
    ingressClassEnv,  \* the process environment variable INGRESS_CLASS_NAME
    pass,             \* the reconciliation pass of the (single) worker
    ensured,          \* history: per key and kind, the last successful ensure
    lastPass,         \* history: the previous pass, if it failed after creating
    envSteps,         \* steps taken by the other actors
    files,            \* the dashboard's host: the files under /tmp
    reqs,             \* the dashboard's requests, each at its statement
    commands,         \* history: the commands the dashboard has run
    queue             \* the work queue: the keys that await a pass

vars == <<cluster, incarnation, ingressClassEnv, pass, ensured, lastPass, envSteps,
          files, reqs, commands, queue>>

\* -------------------------------------------------------------- API model
DepKinds == {"Deployment", "Service", "Ingress"}
Kinds == {"SimpleApp"} \cup DepKinds

NoObj == [exists |-> FALSE]

IngressName(name) == name \o "-ingress"

ObjNames == Names \cup {IngressName(n) : n \in Names}
ObjIds == [kind : Kinds, namespace : Namespaces, name : ObjNames]

Id(kind, namespace, name) == [kind |-> kind, namespace |-> namespace, name |-> name]

\* a variant that gives every service the same, fixed name
DepNameFixedService(kind, name) ==
    IF kind = "Ingress" THEN IngressName(name)
    ELSE IF kind = "Service" THEN "a" ELSE name

\* the object a pass for key k reads and writes for each kind
DepName(kind, name) == IF kind = "Ingress" THEN IngressName(name) ELSE name
DepId(kind, k) == Id(kind, k.namespace, DepName(kind, k.name))
AppId(k) == Id("SimpleApp", k.namespace, k.name)

\* intstr.FromInt
FromInt(n) == [type |-> "Int", intVal |-> n, strVal |-> ""]

\* a variant that names the owner without marking it as the controller
OwnerRefOnly(cr) ==
    [kind |-> "SimpleApp", name |-> cr.name, uid |-> cr.uid, controller |-> FALSE]

\* metav1.OwnerReference set by ctrl.SetControllerReference
ControllerRef(cr) ==
    [kind |-> "SimpleApp", name |-> cr.name, uid |-> cr.uid, controller |-> TRUE]

\* a variant that watches no ingress
OwnedKindsButIngress == {"Deployment", "Service"}

\* Owns(&appsv1.Deployment{}), Owns(&corev1.Service{}),
\* Owns(&networkingv1.Ingress{})
OwnedKinds == {"Deployment", "Service", "Ingress"}

\* the keys an event for the object is mapped to: those of its controller
\* owners of kind SimpleApp
Owners(obj) ==
    IF obj.exists
    THEN {[namespace |-> obj.namespace, name |-> ref.name] :
             ref \in {r \in obj.ownerRefs : r.controller /\ r.kind = "SimpleApp"}}
    ELSE {}

\* For(&SimpleApp{}) and Owns(...): the keys enqueued when the store goes
\* from old to new
Enqueued(old, new) ==
    {k \in Keys : old[AppId(k)] # new[AppId(k)]}
        \cup UNION {Owners(old[id]) \cup Owners(new[id]) :
                       id \in {i \in ObjIds : i.kind \in OwnedKinds /\ old[i] # new[i]}}

\* the watches of the controller, on a step that writes the store
Watch == queue' = queue \cup Enqueued(cluster, cluster')

\* ------------------------------------------------- desired-state generator
\* a variant that takes the replicas of the live deployment, if there is one
DesiredDeploymentKeepLive(cr) ==
    [exists |-> TRUE, kind |-> "Deployment",
     namespace |-> cr.namespace, name |-> cr.name,
     uid |-> 0, rv |-> 0,
     ownerRefs |-> {ControllerRef(cr)},
     replicas |-> IF cluster[Id("Deployment", cr.namespace, cr.name)].exists
                  THEN cluster[Id("Deployment", cr.namespace, cr.name)].replicas
                  ELSE <<cr.spec.replicas>>,
     selector |-> cr.name,
     labels |-> cr.name,
     containers |-> << [name |-> "app",
                        image |-> cr.spec.image,
                        imagePullPolicy |-> "IfNotPresent",
                        ports |-> <<cr.spec.containerPort>>] >>,
     readyReplicas |-> 0]

DesiredDeployment(cr) ==
    [exists |-> TRUE, kind |-> "Deployment",
     namespace |-> cr.namespace, name |-> cr.name,
     uid |-> 0, rv |-> 0,
     ownerRefs |-> {ControllerRef(cr)},
     replicas |-> <<cr.spec.replicas>>,
     selector |-> cr.name,
     labels |-> cr.name,
     containers |-> << [name |-> "app",
                        image |-> cr.spec.image,
                        imagePullPolicy |-> "IfNotPresent",
                        ports |-> <<cr.spec.containerPort>>] >>,
     readyReplicas |-> 0]

\* a variant that forwards to the service port instead of the container port
DesiredServiceSamePort(cr) ==
    [exists |-> TRUE, kind |-> "Service",
     namespace |-> cr.namespace, name |-> cr.name,
     uid |-> 0, rv |-> 0,
     ownerRefs |-> {ControllerRef(cr)},
     selector |-> cr.name,
     ports |-> << [port |-> cr.spec.servicePort,
                   targetPort |-> FromInt(cr.spec.servicePort)] >>,
     type |-> "ClusterIP"]

DesiredService(cr) ==
    [exists |-> TRUE, kind |-> "Service",
     namespace |-> cr.namespace, name |-> cr.name,
     uid |-> 0, rv |-> 0,
     ownerRefs |-> {ControllerRef(cr)},
     selector |-> cr.name,
     ports |-> << [port |-> cr.spec.servicePort,
                   targetPort |-> FromInt(cr.spec.containerPort)] >>,
     type |-> "ClusterIP"]

\* a variant whose backend is the container port instead of the service port
DesiredIngressContainerPort(cr, ingressClassName) ==
    [exists |-> TRUE, kind |-> "Ingress",
     namespace |-> cr.namespace, name |-> IngressName(cr.name),
     uid |-> 0, rv |-> 0,
     ownerRefs |-> {ControllerRef(cr)},
     classAnnotation |-> <<ingressClassName>>,
     ingressClassName |-> <<ingressClassName>>,
     rules |-> << [host |-> cr.name \o ".local",
                   paths |-> << [path |-> "/",
                                 pathType |-> "Prefix",
                                 backend |-> [name |-> cr.name,
                                              port |-> cr.spec.containerPort]] >>] >>]

\* a variant whose host carries the namespace as well
DesiredIngressNamespacedHost(cr, ingressClassName) ==
    [exists |-> TRUE, kind |-> "Ingress",
     namespace |-> cr.namespace, name |-> IngressName(cr.name),
     uid |-> 0, rv |-> 0,
     ownerRefs |-> {ControllerRef(cr)},
     classAnnotation |-> <<ingressClassName>>,
     ingressClassName |-> <<ingressClassName>>,
     rules |-> << [host |-> cr.name \o "." \o cr.namespace \o ".local",
                   paths |-> << [path |-> "/",
                                 pathType |-> "Prefix",
                                 backend |-> [name |-> cr.name,
                                              port |-> cr.spec.servicePort]] >>] >>]

DesiredIngress(cr, ingressClassName) ==
    [exists |-> TRUE, kind |-> "Ingress",
     namespace |-> cr.namespace, name |-> IngressName(cr.name),
     uid |-> 0, rv |-> 0,
     ownerRefs |-> {ControllerRef(cr)},
     classAnnotation |-> <<ingressClassName>>,
     ingressClassName |-> <<ingressClassName>>,
     rules |-> << [host |-> cr.name \o ".local",
                   paths |-> << [path |-> "/",
                                 pathType |-> "Prefix",
                                 backend |-> [name |-> cr.name,
                                              port |-> cr.spec.servicePort]] >>] >>]

Desired(kind, cr, ingressClassName) ==
    CASE kind = "Deployment" -> DesiredDeployment(cr)
      [] kind = "Service" -> DesiredService(cr)
      [] kind = "Ingress" -> DesiredIngress(cr, ingressClassName)


\* ------------------------------------------------- diffs of the reconcilers
\* a variant that compares the two replicas pointers, not their pointees
DeploymentNeedsUpdatePointers(existing, dep) ==
    \/ TRUE
    \/ existing.containers[1].image # dep.containers[1].image

\* a variant that compares the image and overlooks the replicas
DeploymentNeedsUpdateImageOnly(existing, dep) ==
    existing.containers[1].image # dep.containers[1].image

\* ensureDeployment: the narrow diff surface, replicas and image
DeploymentNeedsUpdate(existing, dep) ==
    \/ existing.replicas[1] # dep.replicas[1]
    \/ existing.containers[1].image # dep.containers[1].image

\* a variant that patches the replicas and forgets the image
PatchDeploymentReplicasOnly(existing, dep) ==
    [existing EXCEPT !.replicas = dep.replicas]

\* a variant that sends the object built instead of the object read
PatchDeploymentReplace(existing, dep) ==
    [dep EXCEPT !.uid = existing.uid, !.rv = existing.rv,
                !.readyReplicas = existing.readyReplicas]

PatchDeployment(existing, dep) ==
    [existing EXCEPT !.replicas = dep.replicas,
                     !.containers[1].image = dep.containers[1].image]

\* a variant that compares the live port with the target port built
ServiceNeedsUpdateCrossed(existing, svc) ==
    \/ existing.ports[1].port # svc.ports[1].targetPort.intVal
    \/ existing.ports[1].targetPort # svc.ports[1].targetPort

\* ensureService: port and targetPort of the first port
ServiceNeedsUpdate(existing, svc) ==
    \/ existing.ports[1].port # svc.ports[1].port
    \/ existing.ports[1].targetPort # svc.ports[1].targetPort

\* a variant that overwrites the first port and keeps the further ones
PatchServiceFirstPort(existing, svc) ==
    [existing EXCEPT !.ports[1] = svc.ports[1]]

\* a variant that patches the exposed port and forgets the target
PatchServicePortOnly(existing, svc) ==
    [existing EXCEPT !.ports[1].port = svc.ports[1].port]

PatchService(existing, svc) == [existing EXCEPT !.ports = svc.ports]

\* ensureIngress: the class reference, only when the live one is set
IngressNeedsUpdate(existing, ingressClassName) ==
    /\ existing.ingressClassName # <<>>
    /\ existing.ingressClassName[1] # ingressClassName

\* a variant that rewrites the legacy annotation along with the class
PatchIngressAndAnnotation(existing, ingressClassName) ==
    [existing EXCEPT !.ingressClassName = <<ingressClassName>>,
                     !.classAnnotation = <<ingressClassName>>]

PatchIngress(existing, ingressClassName) ==
    [existing EXCEPT !.ingressClassName = <<ingressClassName>>]

NeedsUpdate(kind, existing, desired) ==
    CASE kind = "Deployment" -> DeploymentNeedsUpdate(existing, desired)
      [] kind = "Service" -> ServiceNeedsUpdate(existing, desired)
      [] kind = "Ingress" -> IngressNeedsUpdate(existing, desired.ingressClassName[1])

Patch(kind, existing, desired) ==
    CASE kind = "Deployment" -> PatchDeployment(existing, desired)
      [] kind = "Service" -> PatchService(existing, desired)
      [] kind = "Ingress" -> PatchIngress(existing, desired.ingressClassName[1])

\* ----------------------------------------------------- records of the state
NoEnsured == [valid |-> FALSE]
NoPass == [req |-> [namespace |-> "", name |-> ""], outcome |-> "None",
           fetched |-> NoObj, ingressClassEnv |-> "", created |-> {},
           raced |-> {}]

IdlePass ==
    [pc |-> "Idle",
     req |-> [namespace |-> "", name |-> ""],
     simpleApp |-> NoObj,
     fetched |-> NoObj,
     ingressClassName |-> "",
     existing |-> NoObj,
     obs |-> [kind \in DepKinds |-> NoObj],
     err |-> "",
     log |-> <<>>,
     pre |-> [kind \in DepKinds |-> NoObj],
     idem |-> [kind \in DepKinds |-> FALSE],
     built |-> [kind \in DepKinds |-> NoObj],
     preInc |-> [kind \in DepKinds |-> 0]]

\* a declaration as the API server stores it right after the user created it
NewSimpleApp(k, spec, uid) ==
    [exists |-> TRUE, kind |-> "SimpleApp",
     namespace |-> k.namespace, name |-> k.name,
     uid |-> uid, rv |-> 1,
     spec |-> spec,
     status |-> [readyReplicas |-> 0, serviceStatus |-> ""]]

\* ------------------------------------------------- the dashboard (main.go)
\* the dashboard serves this many requests, each in its own goroutine
MaxRequests == 2
Requests == 1..MaxRequests

\* a string is a sequence of pieces: a piece is one white-space rune or a
\* run of other runes
IsSpace(c) == c \in {" ", "\t", "\n", "\r"}

RECURSIVE TrimLeft(_)
TrimLeft(s) ==
    IF s # <<>> /\ IsSpace(Head(s)) THEN TrimLeft(Tail(s)) ELSE s

RECURSIVE TrimRight(_)
TrimRight(s) ==
    IF s # <<>> /\ IsSpace(s[Len(s)])
    THEN TrimRight(SubSeq(s, 1, Len(s) - 1))
    ELSE s

\* strings.TrimSpace
TrimSpace(s) == TrimRight(TrimLeft(s))

FormFields == {"name", "image", "replicas", "containerPort", "servicePort", "namespace"}
RequiredFields == {"name", "image", "replicas", "containerPort", "servicePort"}

\* the form the page submits, forms that differ from it in one field (the
\* field left out, blank, or padded with white space; another name or
\* namespace; values the schema of the declaration does not admit), and a
\* form with several of these oddities
BaseForm ==
    [name |-> <<"a">>, image |-> <<"nginx:latest">>, replicas |-> <<"2">>,
     containerPort |-> <<"80">>, servicePort |-> <<"8080">>,
     namespace |-> <<"default">>]
OddForm ==
    [BaseForm EXCEPT !.name = <<" ", "a", "\t">>, !.namespace = <<" ", "\t">>,
                     !.replicas = <<"many">>]
Forms ==
    {BaseForm, OddForm}
        \cup {[BaseForm EXCEPT ![f] = <<>>] : f \in FormFields}
        \cup {[BaseForm EXCEPT ![f] = <<" ", "\t">>] : f \in FormFields}
        \cup {[BaseForm EXCEPT ![f] = <<" ">> \o BaseForm[f] \o <<"\t", " ">>] :
                 f \in {"image", "namespace"}}
        \cup {[BaseForm EXCEPT !.name = <<"my", " ", "app">>],
              [BaseForm EXCEPT !.namespace = <<"prod">>],
              [BaseForm EXCEPT !.image = <<"nginx:1.25">>],
              [BaseForm EXCEPT !.replicas = <<"many">>],
              [BaseForm EXCEPT !.containerPort = <<"99999">>]}

Methods == {"GET", "POST", "DELETE"}

\* the query parameters of a delete request
QueryValues == {<<>>, <<"a">>, <<" ">>}
QueryNamespaces == {<<>>, <<"default">>}

\* what kubectl prints, word by word, and whether it exits with an error
Outcomes ==
    { [output |-> <<"simpleapp", "created">>, err |-> FALSE],
      [output |-> <<"simpleapp", "configured">>, err |-> FALSE],
      [output |-> <<"simpleapp", "unchanged">>, err |-> FALSE],
      [output |-> <<"error:", "connection", "refused">>, err |-> TRUE],
      [output |-> <<"simpleapp", "created">>, err |-> TRUE],
      [output |-> <<>>, err |-> FALSE] }

NoFile == [exists |-> FALSE]
NoResponse == [status |-> 0]
NoOutcome == [output |-> <<>>, err |-> FALSE]
IdleRequest ==
    [pc |-> "idle", handler |-> "", method |-> "", form |-> BaseForm,
     query |-> [name |-> <<>>, namespace |-> <<>>],
     doc |-> NoFile, out |-> NoOutcome, response |-> NoResponse]

\* `r.FormValue' of each field, trimmed
Trimmed(form) == [f \in FormFields |-> TrimSpace(form[f])]

\* `if namespace == "" { namespace = "default" }'
Defaulted(fields) ==
    [fields EXCEPT !.namespace = IF @ = <<>> THEN <<"default">> ELSE @]

\* a variant that does not look at servicePort
MissingRequiredButServicePort(fields) ==
    \E f \in RequiredFields \ {"servicePort"} : fields[f] = <<>>

\* `name == "" || image == "" || replicas == "" || containerPort == "" ||
\* servicePort == ""'
MissingRequired(fields) == \E f \in RequiredFields : fields[f] = <<>>

\* filepath.Join("/tmp", name+".yaml"); the names submitted here hold no
\* path separator and no dot, so that Join has nothing to clean
Path(name) == <<"/tmp/">> \o name \o <<".yaml">>

\* the YAML document fmt.Sprintf renders: the fields, each where the
\* template has its verb
Yaml(fields) ==
    [exists |-> TRUE,
     metadata |-> [name |-> fields.name, namespace |-> fields.namespace],
     spec |-> [image |-> fields.image, replicas |-> fields.replicas,
               containerPort |-> fields.containerPort,
               servicePort |-> fields.servicePort]]

\* the paths requests can write to
Paths == {Path(TrimSpace(form.name)) : form \in Forms}

\* the page rendered with tmpl.Execute
Page(message, output, error) ==
    [status |-> 200, message |-> message, output |-> output, error |-> error]

\* http.Error and w.WriteHeader with a plain body
Plain(status, body) == [status |-> status, body |-> body]

DashboardInit ==
    /\ files = [p \in Paths |-> NoFile]
    /\ reqs = [r \in Requests |-> IdleRequest]
    /\ commands = <<>>

\* the Init states: the operator has just been deployed, with or without a
\* class; each declaration is absent or has just been submitted, and has no
\* dependents yet
InitFor(keys) ==
    /\ DashboardInit
    /\ ingressClassEnv \in InitClasses
    /\ \E decl \in [keys -> {BaseSpec, NoObj}] :
          cluster = [id \in ObjIds |->
                       IF /\ id.kind = "SimpleApp"
                          /\ [namespace |-> id.namespace, name |-> id.name] \in keys
                          /\ decl[[namespace |-> id.namespace, name |-> id.name]] # NoObj
                       THEN NewSimpleApp(id, decl[[namespace |-> id.namespace, name |-> id.name]],
                                         1)
                       ELSE NoObj]
    /\ incarnation = [id \in ObjIds |-> IF cluster[id].exists THEN 1 ELSE 0]
    /\ pass = IdlePass
    /\ ensured = [k \in Keys |-> [kind \in DepKinds |-> NoEnsured]]
    /\ lastPass = NoPass
    /\ envSteps = 0
    /\ queue = {k \in Keys : cluster[AppId(k)].exists}

Init == InitFor(DeclaredKeys)

\* ------------------------------------------------------------ API calls
\* one entry of the pass's call log
Call(verb, kind, name, err, rv) ==
    [verb |-> verb, kind |-> kind, name |-> name, err |-> err, rv |-> rv]

\* errors a call can return for the store c; "" is success.  `fail' is the
\* transient failure (timeout, server error) the API may answer with.
GetErr(c, id, fail) ==
    IF fail THEN "ServerError"
    ELSE IF ~c[id].exists THEN "NotFound" ELSE ""

CreateErr(c, id, fail) ==
    IF fail THEN "ServerError"
    ELSE IF c[id].exists THEN "AlreadyExists" ELSE ""

UpdateErr(c, id, obj, fail) ==
    IF fail THEN "ServerError"
    ELSE IF ~c[id].exists THEN "NotFound"
    ELSE IF c[id].rv # obj.rv \/ c[id].uid # obj.uid THEN "Conflict" ELSE ""

\* a variant that returns every error, not-found included
KeepNotFound(e) == e

\* a variant that takes every error for not-found
IgnoreEveryError(e) == ""

\* client.IgnoreNotFound
IgnoreNotFound(e) == IF e = "NotFound" THEN "" ELSE e

\* the error ctrl.SetControllerReference returns when it cannot stamp the owner
ReferenceError == "ReferenceError"

\* what the API server stores for a create and an update
Created(obj, uid) == [obj EXCEPT !.rv = 1, !.uid = uid]
Updated(obj) == [obj EXCEPT !.rv = obj.rv + 1]
\* a variant whose status write also reports a health
StatusUpdatedWithHealth(live, obj) ==
    [live EXCEPT !.status = [obj.status EXCEPT !.serviceStatus = "Ready"],
                 !.rv = live.rv + 1]

\* a status update stores the status of obj and nothing else of it
StatusUpdated(live, obj) == [live EXCEPT !.status = obj.status, !.rv = live.rv + 1]


\* ------------------------------------------------------ the reconciler
\* the order of the steps of Reconcile
\* a variant that runs the ensure operations again after ensureIngress
NextPcAgain(kind) ==
    CASE kind = "SimpleApp" -> "ensureDeployment"
      [] kind = "Deployment" -> "ensureService"
      [] kind = "Service" -> "ensureIngress"
      [] kind = "Ingress" -> "ensureDeployment"

\* the statement of Reconcile that follows the fetch or the ensure operation
\* of the kind
NextPc(kind) ==
    CASE kind = "SimpleApp" -> "ensureDeployment"
      [] kind = "Deployment" -> "ensureService"
      [] kind = "Service" -> "ensureIngress"
      [] kind = "Ingress" -> "updateStatus"

\* a variant that discards the error of ensureService and goes on
AbortButService(p, kind, e) ==
    IF kind = "Service"
    THEN [p EXCEPT !.pc = NextPc(kind), !.existing = NoObj]
    ELSE [p EXCEPT !.pc = "Failed", !.err = e, !.existing = NoObj]

\* a variant that tries a failed create or update again
AbortRetryWrite(p, kind, e) ==
    IF p.pc \in {"create" \o kind, "update" \o kind}
    THEN p
    ELSE [p EXCEPT !.pc = "Failed", !.err = e, !.existing = NoObj]

\* `if err != nil { return ctrl.Result{}, err }': the pass ends with the error
Abort(p, kind, e) == [p EXCEPT !.pc = "Failed", !.err = e, !.existing = NoObj]

\* an ensure operation returned (obj, nil) to Reconcile
Proceed(p, kind, obj) ==
    [p EXCEPT !.pc = NextPc(kind), !.obs[kind] = obj, !.existing = NoObj]

Logged(p, call) == [p EXCEPT !.log = Append(p.log, call)]

\* the object the current ensure operation has built from the declaration
Built(kind) == pass.built[kind]

\* history: ensure operation `kind' of the pass succeeded in the store c,
\* with the object it had built
Ensure(kind, ingressClassName, c) ==
    [ensured EXCEPT ![pass.req][kind] =
        [valid |-> TRUE,
         spec |-> pass.simpleApp.spec,
         uid |-> pass.simpleApp.uid,
         ingressClassName |-> ingressClassName,
         built |-> pass'.built[kind],
         obj |-> c[DepId(kind, pass.req)]]]

\* history: this run of ensure operation `kind' directly follows a
\* successful one with the same declaration, class and live object
Rerun(kind, ingressClassName) ==
    LET e == ensured[pass.req][kind] IN
    /\ e.valid
    /\ e.spec = pass.simpleApp.spec
    /\ e.uid = pass.simpleApp.uid
    /\ e.ingressClassName = ingressClassName
    /\ e.obj = cluster[DepId(kind, pass.req)]

\* Reconcile, up to the return of r.Get for the declaration
Reconcile(k, fail) ==
    /\ pass.pc = "Idle"
    /\ LET e == GetErr(cluster, AppId(k), fail)
           p == Logged([IdlePass EXCEPT !.req = k],
                       Call("Get", "SimpleApp", k.name, e,
                            IF e = "" THEN cluster[AppId(k)].rv ELSE 0))
       IN  pass' = IF e # ""
                   THEN IF IgnoreNotFound(e) = ""
                        THEN [p EXCEPT !.pc = "Done"]
                        ELSE Abort(p, "SimpleApp", IgnoreNotFound(e))
                   ELSE [p EXCEPT !.pc = NextPc("SimpleApp"),
                                  !.simpleApp = cluster[AppId(k)],
                                  !.fetched = cluster[AppId(k)],
                                  !.pre = [kind \in DepKinds |-> cluster[DepId(kind, k)]],
                                  !.preInc = [kind \in DepKinds |->
                                                 incarnation[DepId(kind, k)]]]
    /\ queue' = queue \ {k}
    /\ UNCHANGED <<cluster, incarnation, ingressClassEnv, ensured, lastPass, envSteps, files, reqs, commands>>

\* the comparison dereferences existing.Spec.Replicas and indexes
\* Containers[0] and Ports[0] without a check: a run-time panic when the
\* pointer is nil or the list empty
Faults(kind, existing) ==
    CASE kind = "Deployment" -> existing.replicas = <<>> \/ existing.containers = <<>>
      [] kind = "Service" -> existing.ports = <<>>
      [] kind = "Ingress" -> FALSE

\* the goroutine of the pass unwinds with a panic
Panic(p) == [p EXCEPT !.pc = "Panicked", !.err = "panic", !.existing = NoObj]

\* an ensure operation from its entry to the return of r.Get, with the
\* comparison of the object read against the one built; refErr: stamping
\* the owner reference on the object built fails, and the operation returns
\* that error
EnsureGet(kind, ingressClassName, refErr, fail) ==
    LET id == DepId(kind, pass.req)
        e == GetErr(cluster, id, fail)
        desired == Desired(kind, pass.simpleApp, ingressClassName)
        entered == [pass EXCEPT !.ingressClassName = ingressClassName,
                                !.idem[kind] = Rerun(kind, ingressClassName)]
        p == Logged([entered EXCEPT !.built[kind] = desired],
                    Call("Get", kind, id.name, e,
                         IF e = "" THEN cluster[id].rv ELSE 0))
    IN  IF refErr
        THEN /\ pass' = Abort(Logged(entered, Call("SetControllerReference", kind, id.name,
                                                   ReferenceError, 0)),
                              kind, ReferenceError)
             /\ UNCHANGED <<cluster, incarnation, ingressClassEnv, ensured, lastPass, envSteps, files, reqs, commands, queue>>
        ELSE /\ pass' = IF e # ""
                        THEN IF IgnoreNotFound(e) # ""
                             THEN Abort(p, kind, e)
                             ELSE [p EXCEPT !.pc = "create" \o kind]
                        ELSE IF Faults(kind, cluster[id])
                             THEN Panic(p)
                        ELSE IF NeedsUpdate(kind, cluster[id], desired)
                             THEN [p EXCEPT !.pc = "update" \o kind,
                                            !.existing = cluster[id]]
                             ELSE Proceed(p, kind, cluster[id])
             /\ ensured' = IF /\ e = ""
                              /\ ~Faults(kind, cluster[id])
                              /\ ~NeedsUpdate(kind, cluster[id], desired)
                           THEN Ensure(kind, ingressClassName, cluster)
                           ELSE ensured
             /\ UNCHANGED <<cluster, incarnation, ingressClassEnv, lastPass, envSteps, files, reqs, commands, queue>>

\* a variant that replaces an object it finds in its way
EnsureCreateOrReplace(kind, fail) ==
    LET id == DepId(kind, pass.req)
        e == IF fail THEN "ServerError" ELSE ""
        obj == Created(Built(kind), incarnation[id] + 1)
        p == Logged(pass, Call("Create", kind, id.name, e,
                               IF e = "" THEN obj.rv ELSE 0))
    IN  IF e # ""
        THEN /\ pass' = Abort(p, kind, e)
             /\ UNCHANGED <<cluster, incarnation, ingressClassEnv, ensured, lastPass, envSteps, files, reqs, commands, queue>>
        ELSE /\ cluster' = [cluster EXCEPT ![id] = obj]
             /\ incarnation' = [incarnation EXCEPT ![id] = @ + 1]
             /\ pass' = Proceed(p, kind, obj)
             /\ ensured' = Ensure(kind, pass.ingressClassName, cluster')
             /\ UNCHANGED <<ingressClassEnv, lastPass, envSteps, files, reqs, commands>> /\ Watch

\* r.Create of the object built, and the return of the ensure operation
EnsureCreate(kind, fail) ==
    LET id == DepId(kind, pass.req)
        e == CreateErr(cluster, id, fail)
        obj == Created(Built(kind), incarnation[id] + 1)
        p == Logged(pass, Call("Create", kind, id.name, e,
                               IF e = "" THEN obj.rv ELSE 0))
    IN  IF e # ""
        THEN /\ pass' = Abort(p, kind, e)
             /\ UNCHANGED <<cluster, incarnation, ingressClassEnv, ensured, lastPass, envSteps, files, reqs, commands, queue>>
        ELSE /\ cluster' = [cluster EXCEPT ![id] = obj]
             /\ incarnation' = [incarnation EXCEPT ![id] = @ + 1]
             /\ pass' = Proceed(p, kind, obj)
             /\ ensured' = Ensure(kind, pass.ingressClassName, cluster')
             /\ UNCHANGED <<ingressClassEnv, lastPass, envSteps, files, reqs, commands>> /\ Watch

\* a variant that sends the patched object without the version it read
EnsureUpdateUnconditional(kind, fail) ==
    LET id == DepId(kind, pass.req)
        patched == Patch(kind, pass.existing, Built(kind))
        e == IF fail THEN "ServerError"
             ELSE IF ~cluster[id].exists THEN "NotFound" ELSE ""
        obj == [patched EXCEPT !.rv = cluster[id].rv + 1, !.uid = cluster[id].uid]
        p == Logged(pass, Call("Update", kind, id.name, e,
                               IF e = "" THEN obj.rv ELSE 0))
    IN  IF e # ""
        THEN /\ pass' = Abort(p, kind, e)
             /\ UNCHANGED <<cluster, incarnation, ingressClassEnv, ensured, lastPass, envSteps, files, reqs, commands, queue>>
        ELSE /\ cluster' = [cluster EXCEPT ![id] = obj]
             /\ pass' = Proceed(p, kind, obj)
             /\ ensured' = Ensure(kind, pass.ingressClassName, cluster')
             /\ UNCHANGED <<incarnation, ingressClassEnv, lastPass, envSteps, files, reqs, commands>> /\ Watch

\* r.Update of the object read, patched, and the return of the operation
EnsureUpdate(kind, fail) ==
    LET id == DepId(kind, pass.req)
        patched == Patch(kind, pass.existing, Built(kind))
        e == UpdateErr(cluster, id, patched, fail)
        obj == Updated(patched)
        p == Logged(pass, Call("Update", kind, id.name, e,
                               IF e = "" THEN obj.rv ELSE 0))
    IN  IF e # ""
        THEN /\ pass' = Abort(p, kind, e)
             /\ UNCHANGED <<cluster, incarnation, ingressClassEnv, ensured, lastPass, envSteps, files, reqs, commands, queue>>
        ELSE /\ cluster' = [cluster EXCEPT ![id] = obj]
             /\ pass' = Proceed(p, kind, obj)
             /\ ensured' = Ensure(kind, pass.ingressClassName, cluster')
             /\ UNCHANGED <<incarnation, ingressClassEnv, lastPass, envSteps, files, reqs, commands>> /\ Watch

ensureDeploymentGet(refErr, fail) ==
    /\ pass.pc = "ensureDeployment"
    /\ EnsureGet("Deployment", "", refErr, fail)

ensureDeploymentCreate(fail) ==
    /\ pass.pc = "createDeployment"
    /\ EnsureCreate("Deployment", fail)

ensureDeploymentUpdate(fail) ==
    /\ pass.pc = "updateDeployment"
    /\ EnsureUpdate("Deployment", fail)

ensureServiceGet(refErr, fail) ==
    /\ pass.pc = "ensureService"
    /\ EnsureGet("Service", "", refErr, fail)

ensureServiceCreate(fail) ==
    /\ pass.pc = "createService"
    /\ EnsureCreate("Service", fail)

ensureServiceUpdate(fail) ==
    /\ pass.pc = "updateService"
    /\ EnsureUpdate("Service", fail)

\* a variant that removes the ingress when no class is configured
ensureIngressSkipDeletes ==
    /\ pass.pc = "ensureIngress"
    /\ ingressClassEnv = ""
    /\ pass' = Proceed([pass EXCEPT !.ingressClassName = "",
                                    !.idem["Ingress"] = Rerun("Ingress", "")],
                       "Ingress", NoObj)
    /\ cluster' = [cluster EXCEPT ![DepId("Ingress", pass.req)] = NoObj]
    /\ ensured' = Ensure("Ingress", "", cluster')
    /\ UNCHANGED <<incarnation, ingressClassEnv, lastPass, envSteps, files, reqs, commands>> /\ Watch

\* a variant that issues a delete call for the ingress when no class is
\* configured
ensureIngressSkipCleanup ==
    /\ pass.pc = "ensureIngress"
    /\ ingressClassEnv = ""
    /\ pass' = Proceed(Logged([pass EXCEPT !.ingressClassName = "",
                                           !.idem["Ingress"] = Rerun("Ingress", "")],
                              Call("Delete", "Ingress", IngressName(pass.req.name), "", 0)),
                       "Ingress", NoObj)
    /\ cluster' = [cluster EXCEPT ![DepId("Ingress", pass.req)] = NoObj]
    /\ ensured' = Ensure("Ingress", "", cluster')
    /\ UNCHANGED <<incarnation, ingressClassEnv, lastPass, envSteps, files, reqs, commands>> /\ Watch

\* os.Getenv("INGRESS_CLASS_NAME") == "": ensureIngress returns (nil, nil)
ensureIngressSkip ==
    /\ pass.pc = "ensureIngress"
    /\ ingressClassEnv = ""
    /\ pass' = Proceed([pass EXCEPT !.ingressClassName = "",
                                    !.idem["Ingress"] = Rerun("Ingress", "")],
                       "Ingress", NoObj)
    /\ ensured' = Ensure("Ingress", "", cluster)
    /\ UNCHANGED <<cluster, incarnation, ingressClassEnv, lastPass, envSteps, files, reqs, commands, queue>>

\* a variant that keeps the class it resolved for the key before
ensureIngressGetCached(refErr, fail) ==
    /\ pass.pc = "ensureIngress"
    /\ ingressClassEnv # ""
    /\ EnsureGet("Ingress",
                 IF /\ ensured[pass.req]["Ingress"].valid
                    /\ ensured[pass.req]["Ingress"].ingressClassName # ""
                 THEN ensured[pass.req]["Ingress"].ingressClassName
                 ELSE ingressClassEnv,
                 refErr, fail)

\* os.Getenv("INGRESS_CLASS_NAME") is set: build, stamp, read and compare
ensureIngressGet(refErr, fail) ==
    /\ pass.pc = "ensureIngress"
    /\ ingressClassEnv # ""
    /\ EnsureGet("Ingress", ingressClassEnv, refErr, fail)

ensureIngressCreate(fail) ==
    /\ pass.pc = "createIngress"
    /\ EnsureCreate("Ingress", fail)

ensureIngressUpdate(fail) ==
    /\ pass.pc = "updateIngress"
    /\ EnsureUpdate("Ingress", fail)

\* a variant that writes the status on every pass
StatusDiffersAlways(simpleApp, deployment) ==
    simpleApp.exists /\ deployment.exists

\* step 5 of Reconcile: mirror the deployment's ready count into the status
StatusDiffers(simpleApp, deployment) ==
    simpleApp.status.readyReplicas # deployment.readyReplicas

ReconcileStatus(fail) ==
    /\ pass.pc = "updateStatus"
    /\ LET deployment == pass.obs["Deployment"]
           id == AppId(pass.req)
           simpleApp == [pass.simpleApp EXCEPT
                           !.status.readyReplicas = deployment.readyReplicas]
           e == UpdateErr(cluster, id, simpleApp, fail)
           p == Logged(pass, Call("StatusUpdate", "SimpleApp", id.name, e,
                                  IF e = "" THEN simpleApp.rv + 1 ELSE 0))
       IN  IF ~StatusDiffers(pass.simpleApp, deployment)
           THEN /\ pass' = [pass EXCEPT !.pc = "Done"]
                /\ UNCHANGED cluster
           ELSE IF e # ""
           THEN /\ pass' = Abort([p EXCEPT !.simpleApp = simpleApp], "Status", e)
                /\ UNCHANGED cluster
           ELSE /\ cluster' = [cluster EXCEPT ![id] = StatusUpdated(cluster[id], simpleApp)]
                /\ pass' = [p EXCEPT !.pc = "Done", !.simpleApp = cluster'[id]]
    /\ UNCHANGED <<incarnation, ingressClassEnv, ensured, lastPass, envSteps, files, reqs, commands>> /\ Watch

CreatedKinds(log) ==
    {kind \in DepKinds :
        \E i \in 1..Len(log) :
            log[i].verb = "Create" /\ log[i].kind = kind /\ log[i].err = ""}

\* the kinds whose create call was answered AlreadyExists
RacedKinds(log) ==
    {kind \in DepKinds :
        \E i \in 1..Len(log) :
            log[i].verb = "Create" /\ log[i].kind = kind
                /\ log[i].err = "AlreadyExists"}

\* Reconcile has returned; the worker takes the next request, and puts
\* the key of a pass that returned an error back on the queue
Return ==
    /\ pass.pc \in {"Done", "Failed"}
    /\ lastPass' = IF /\ pass.pc = "Failed"
                       /\ CreatedKinds(pass.log) \cup RacedKinds(pass.log) # {}
                    THEN [req |-> pass.req, outcome |-> pass.pc,
                          fetched |-> pass.fetched,
                          ingressClassEnv |-> ingressClassEnv,
                          created |-> CreatedKinds(pass.log),
                          raced |-> RacedKinds(pass.log)]
                    ELSE NoPass
    /\ pass' = IdlePass
    /\ queue' = IF pass.pc = "Failed" THEN queue \cup {pass.req} ELSE queue
    /\ UNCHANGED <<cluster, incarnation, ingressClassEnv, ensured, envSteps, files, reqs, commands>>


\* ---------------------------------------------------------- other actors
EnvStep ==
    /\ envSteps < MaxEnvSteps
    /\ envSteps' = envSteps + 1

Write(id, obj) ==
    /\ cluster' = [cluster EXCEPT ![id] = [obj EXCEPT !.rv = @ + 1]]
    /\ UNCHANGED incarnation

\* `kubectl apply' of a declaration (the dashboard's deploy request, the
\* test scripts): creates the declaration or replaces its spec
UserApply(k, spec) ==
    /\ EnvStep
    /\ LET id == AppId(k) IN
       IF cluster[id].exists
       THEN /\ cluster[id].spec # spec
            /\ Write(id, [cluster[id] EXCEPT !.spec = spec])
       ELSE /\ cluster' = [cluster EXCEPT ![id] = NewSimpleApp(k, spec, incarnation[id] + 1)]
            /\ incarnation' = [incarnation EXCEPT ![id] = @ + 1]
    /\ UNCHANGED <<ingressClassEnv, pass, ensured, lastPass, files, reqs, commands>> /\ Watch

\* `kubectl delete simpleapp' (the dashboard's delete request)
UserDelete(k) ==
    /\ EnvStep
    /\ cluster[AppId(k)].exists
    /\ cluster' = [cluster EXCEPT ![AppId(k)] = NoObj]
    /\ UNCHANGED <<incarnation, ingressClassEnv, pass, ensured, lastPass, files, reqs, commands>> /\ Watch

\* the platform's garbage collector: a dependent whose owner is gone is
\* deleted
Orphaned(obj) ==
    /\ obj.exists
    /\ obj.kind \in DepKinds
    /\ \E ref \in obj.ownerRefs :
          LET owner == cluster[Id(ref.kind, obj.namespace, ref.name)] IN
          IF owner.exists THEN owner.uid # ref.uid ELSE TRUE

GarbageCollect(id) ==
    /\ Orphaned(cluster[id])
    /\ cluster' = [cluster EXCEPT ![id] = NoObj]
    /\ UNCHANGED <<incarnation, ingressClassEnv, pass, ensured, lastPass, envSteps, files, reqs, commands>> /\ Watch

\* an object of a derived name that another writer creates: the shape the
\* reconciler would give it for the base declaration, without an owner
\* reference (and, for an ingress, with a class of the writer's own)
Foreign(kind, k) ==
    [Desired(kind, [namespace |-> k.namespace, name |-> k.name, uid |-> 0,
                    spec |-> BaseSpec], "other")
        EXCEPT !.ownerRefs = {}]

\* another writer creates a deployment, service or ingress under the name
\* the reconciler derives for key k
ExternalCreate(kind, k) ==
    /\ EnvStep
    /\ ~cluster[DepId(kind, k)].exists
    /\ cluster' = [cluster EXCEPT ![DepId(kind, k)] =
                      Created(Foreign(kind, k), incarnation[DepId(kind, k)] + 1)]
    /\ incarnation' = [incarnation EXCEPT ![DepId(kind, k)] = @ + 1]
    /\ UNCHANGED <<ingressClassEnv, pass, ensured, lastPass, files, reqs, commands>> /\ Watch

\* another writer edits a live deployment (kubectl scale, kubectl edit)
EditedDeployment(live, edit) ==
    LET has(f) == f \in DOMAIN edit
    IN  [live EXCEPT
           !.replicas = IF has("replicas") THEN <<edit.replicas>> ELSE @,
           !.containers[1].image = IF has("image") THEN edit.image ELSE @,
           !.labels = IF has("labels") THEN edit.labels ELSE @]

ExternalEditDeployment(id, edit) ==
    /\ EnvStep
    /\ id.kind = "Deployment"
    /\ cluster[id].exists
    /\ LET obj == EditedDeployment(cluster[id], edit)
       IN  /\ obj # cluster[id]
           /\ Write(id, obj)
    /\ UNCHANGED <<ingressClassEnv, pass, ensured, lastPass, files, reqs, commands>> /\ Watch

EditedService(live, edit) ==
    LET has(f) == f \in DOMAIN edit
        first == [live EXCEPT
                    !.ports[1].port = IF has("port") THEN edit.port ELSE @,
                    !.ports[1].targetPort =
                        IF has("targetPort") THEN FromInt(edit.targetPort) ELSE @,
                    !.selector = IF has("selector") THEN edit.selector ELSE @,
                    !.type = IF has("type") THEN edit.type ELSE @]
    IN  IF has("extraPort")
        THEN [first EXCEPT !.ports = Append(@, [port |-> edit.extraPort,
                                                targetPort |-> FromInt(edit.extraPort)])]
        ELSE first

\* another writer edits a live service: its first port, its selector and
\* type, or a further port (kubectl edit, kubectl patch)
ExternalEditService(id, edit) ==
    /\ EnvStep
    /\ id.kind = "Service"
    /\ cluster[id].exists
    /\ LET obj == EditedService(cluster[id], edit)
       IN  /\ obj # cluster[id]
           /\ Write(id, obj)
    /\ UNCHANGED <<ingressClassEnv, pass, ensured, lastPass, files, reqs, commands>> /\ Watch

\* another writer edits the class reference of a live ingress
ExternalEditIngress(id, class) ==
    /\ EnvStep
    /\ id.kind = "Ingress"
    /\ cluster[id].exists
    /\ cluster[id].ingressClassName # class
    /\ Write(id, [cluster[id] EXCEPT !.ingressClassName = class])
    /\ UNCHANGED <<ingressClassEnv, pass, ensured, lastPass, files, reqs, commands>> /\ Watch

\* the platform's deployment controller reports the ready replicas
DeploymentStatus(id, ready) ==
    /\ EnvStep
    /\ id.kind = "Deployment"
    /\ cluster[id].exists
    /\ cluster[id].readyReplicas # ready
    /\ Write(id, [cluster[id] EXCEPT !.readyReplicas = ready])
    /\ UNCHANGED <<ingressClassEnv, pass, ensured, lastPass, files, reqs, commands>> /\ Watch

\* the operator is redeployed with another INGRESS_CLASS_NAME (the
\* kustomize overlays); the environment of a running process is fixed, so
\* the value changes between passes only
ConfigChange(class) ==
    /\ EnvStep
    /\ pass.pc = "Idle"
    /\ class # ingressClassEnv
    /\ ingressClassEnv' = class
    /\ UNCHANGED <<cluster, incarnation, pass, ensured, lastPass, files, reqs, commands, queue>>

\* ---------------------------------------------------------- specification
Next ==
    \/ \E k \in DeclaredKeys, fail \in BOOLEAN : Reconcile(k, fail)
    \/ \E refErr \in BOOLEAN, fail \in BOOLEAN : ensureDeploymentGet(refErr, fail)
    \/ \E fail \in BOOLEAN : ensureDeploymentCreate(fail)
    \/ \E fail \in BOOLEAN : ensureDeploymentUpdate(fail)
    \/ \E refErr \in BOOLEAN, fail \in BOOLEAN : ensureServiceGet(refErr, fail)
    \/ \E fail \in BOOLEAN : ensureServiceCreate(fail)
    \/ \E fail \in BOOLEAN : ensureServiceUpdate(fail)
    \/ ensureIngressSkip
    \/ \E refErr \in BOOLEAN, fail \in BOOLEAN : ensureIngressGet(refErr, fail)
    \/ \E fail \in BOOLEAN : ensureIngressCreate(fail)
    \/ \E fail \in BOOLEAN : ensureIngressUpdate(fail)
    \/ \E fail \in BOOLEAN : ReconcileStatus(fail)
    \/ Return
    \/ \E k \in DeclaredKeys, spec \in DeclSpecs : UserApply(k, spec)
    \/ \E k \in DeclaredKeys : UserDelete(k)
    \/ \E id \in ObjIds : GarbageCollect(id)
    \/ \E kind \in DepKinds, k \in DeclaredKeys : ExternalCreate(kind, k)
    \/ \E id \in ObjIds, edit \in DeploymentEdits : ExternalEditDeployment(id, edit)
    \/ \E id \in ObjIds, edit \in ServiceEdits : ExternalEditService(id, edit)
    \/ \E id \in ObjIds, class \in DriftClasses : ExternalEditIngress(id, class)
    \/ \E id \in ObjIds, ready \in ReadyCounts : DeploymentStatus(id, ready)
    \/ \E class \in IngressClasses : ConfigChange(class)

Spec == Init /\ [][Next]_vars

\* a step of the worker: it takes a request, runs a statement of Reconcile,
\* or returns
PassStep == Next /\ pass' # pass

\* a step in which an API call meets a transient failure, or the stamping
\* of an owner reference fails
FaultStep ==
    /\ Next
    /\ Len(pass'.log) = Len(pass.log) + 1
    /\ pass'.log[Len(pass'.log)].err \in {"ServerError", ReferenceError}

\* a service another writer has created without ports under the name the
\* reconciler derives for key k (a headless service, clusterIP: None, may
\* have none)
ExternalCreateHeadless(k) ==
    /\ EnvStep
    /\ ~cluster[DepId("Service", k)].exists
    /\ cluster' = [cluster EXCEPT ![DepId("Service", k)] =
                      Created([Foreign("Service", k) EXCEPT !.ports = <<>>],
                              incarnation[DepId("Service", k)] + 1)]
    /\ incarnation' = [incarnation EXCEPT ![DepId("Service", k)] = @ + 1]
    /\ UNCHANGED <<ingressClassEnv, pass, ensured, lastPass, files, reqs, commands>> /\ Watch

\* the panic of a pass is recovered by the worker and returned as the
\* error of Reconcile (controller options with RecoverPanic)
RecoverPanic ==
    /\ pass.pc = "Panicked"
    /\ pass' = [pass EXCEPT !.pc = "Failed"]
    /\ UNCHANGED <<cluster, incarnation, ingressClassEnv, ensured, lastPass, envSteps, files, reqs, commands, queue>>

\* the panic of a pass ends the process, which is started again
Restart ==
    /\ pass.pc = "Panicked"
    /\ pass' = IdlePass
    /\ lastPass' = NoPass
    /\ queue' = queue \cup {k \in Keys : cluster[AppId(k)].exists}
    /\ UNCHANGED <<cluster, incarnation, ingressClassEnv, ensured, envSteps, files, reqs, commands>>

\* the dependents of key k as a pass for declaration cr under the class
\* has created them
CreatedFor(k, cr, class) ==
    [kind \in DepKinds |->
        IF kind = "Ingress" /\ class = "" THEN NoObj
        ELSE Created(Desired(kind, cr, class), 1)]

\* what other writers may have done to the dependents since
Drifts ==
    {[kind |-> "None"]}
        \cup {[kind |-> "Deployment", edit |-> edit] : edit \in DeploymentEdits}
        \cup {[kind |-> "Service", edit |-> edit] : edit \in ServiceEdits}
        \cup {[kind |-> "Ingress", edit |-> class] : class \in DriftClasses}
        \cup {[kind |-> "Ready", edit |-> ready] : ready \in ReadyCounts \ {0}}

Drifted(objs, drift) ==
    LET written(obj) == [obj EXCEPT !.rv = @ + 1]
    IN  CASE drift.kind = "Deployment" ->
                [objs EXCEPT !["Deployment"] = written(EditedDeployment(@, drift.edit))]
          [] drift.kind = "Service" ->
                [objs EXCEPT !["Service"] = written(EditedService(@, drift.edit))]
          [] drift.kind = "Ingress" ->
                [objs EXCEPT !["Ingress"] =
                    IF @.exists THEN written([@ EXCEPT !.ingressClassName = drift.edit])
                    ELSE @]
          [] drift.kind = "Ready" ->
                [objs EXCEPT !["Deployment"] =
                    written([@ EXCEPT !.readyReplicas = drift.edit])]
          [] OTHER -> objs

\* the operator has run before: the declaration of each declared key has
\* its dependents, as a pass created them and as one other writer may have
\* left them
InitLive ==
    /\ DashboardInit
    /\ ingressClassEnv \in InitClasses
    /\ \E drift \in Drifts :
          cluster = [id \in ObjIds |->
                       IF \E k \in DeclaredKeys : id = AppId(k)
                       THEN NewSimpleApp(id, BaseSpec, 1)
                       ELSE IF \E k \in DeclaredKeys : id = DepId(id.kind, k)
                       THEN LET k == CHOOSE k \in DeclaredKeys : id = DepId(id.kind, k)
                            IN  Drifted(CreatedFor(k, NewSimpleApp(k, BaseSpec, 1),
                                                   ingressClassEnv), drift)[id.kind]
                       ELSE NoObj]
    /\ incarnation = [id \in ObjIds |-> IF cluster[id].exists THEN 1 ELSE 0]
    /\ pass = IdlePass
    /\ ensured = [k \in Keys |-> [kind \in DepKinds |-> NoEnsured]]
    /\ lastPass = NoPass
    /\ envSteps = 0
    /\ queue = {k \in Keys : cluster[AppId(k)].exists}

NextLive ==
    \/ Next
    \/ \E k \in DeclaredKeys : ExternalCreateHeadless(k)
    \/ RecoverPanic
    \/ Restart

\* the operator at its start or after earlier passes, with the other
\* writers of the cluster, those that create a service without ports
\* included
SpecLive == (Init \/ InitLive) /\ [][NextLive]_vars

\* three keys: two of one namespace, and one of another namespace with the
\* name of one of the two
HostKeys == {k \in Keys : k.namespace = "default" \/ k.name = "a"}

\* every declaration of HostKeys has been submitted, and a class is
\* configured
InitHosts ==
    /\ InitFor(HostKeys)
    /\ ingressClassEnv = "nginx"
    /\ \A k \in HostKeys : cluster[AppId(k)].exists

\* the passes of the worker when no call fails and nobody else writes
NextHosts ==
    \/ \E k \in HostKeys : Reconcile(k, FALSE)
    \/ ensureDeploymentGet(FALSE, FALSE)
    \/ ensureDeploymentCreate(FALSE)
    \/ ensureServiceGet(FALSE, FALSE)
    \/ ensureServiceCreate(FALSE)
    \/ ensureIngressGet(FALSE, FALSE)
    \/ ensureIngressCreate(FALSE)
    \/ ReconcileStatus(FALSE)
    \/ Return

SpecHosts == InitHosts /\ [][NextHosts]_vars

\* the worker keeps running: it ends the pass it has begun and then takes
\* a key from the queue
SpecWatch == Init /\ [][Next]_vars /\ WF_vars(PassStep)

\* the worker keeps running: a pass that has begun runs to its return, and
\* the key is requeued after every pass (Owns/For watches and the retry of
\* failed passes); transient failures eventually stop
SpecConverge ==
    /\ Init /\ [][Next]_vars
    /\ WF_vars(PassStep)
    /\ <>[][~FaultStep]_vars

\* the same operator with declarations under every key, so that passes for
\* different keys follow one another
\* two keys of one namespace, the name of one being the name the other's
\* ingress gets
PairKeys == {k \in Keys : k.namespace = "default"}

InitKeys == InitFor(PairKeys)

NextKeys ==
    \/ \E k \in PairKeys, fail \in BOOLEAN : Reconcile(k, fail)
    \/ \E refErr \in BOOLEAN, fail \in BOOLEAN : ensureDeploymentGet(refErr, fail)
    \/ \E fail \in BOOLEAN : ensureDeploymentCreate(fail)
    \/ \E fail \in BOOLEAN : ensureDeploymentUpdate(fail)
    \/ \E refErr \in BOOLEAN, fail \in BOOLEAN : ensureServiceGet(refErr, fail)
    \/ \E fail \in BOOLEAN : ensureServiceCreate(fail)
    \/ \E fail \in BOOLEAN : ensureServiceUpdate(fail)
    \/ ensureIngressSkip
    \/ \E refErr \in BOOLEAN, fail \in BOOLEAN : ensureIngressGet(refErr, fail)
    \/ \E fail \in BOOLEAN : ensureIngressCreate(fail)
    \/ \E fail \in BOOLEAN : ensureIngressUpdate(fail)
    \/ \E fail \in BOOLEAN : ReconcileStatus(fail)
    \/ Return
    \/ \E k \in PairKeys, spec \in DeclSpecs : UserApply(k, spec)
    \/ \E k \in PairKeys : UserDelete(k)
    \/ \E id \in ObjIds : GarbageCollect(id)
    \/ \E kind \in DepKinds, k \in PairKeys : ExternalCreate(kind, k)
    \/ \E id \in ObjIds, edit \in DeploymentEdits : ExternalEditDeployment(id, edit)
    \/ \E id \in ObjIds, edit \in ServiceEdits : ExternalEditService(id, edit)
    \/ \E id \in ObjIds, class \in DriftClasses : ExternalEditIngress(id, class)
    \/ \E id \in ObjIds, ready \in ReadyCounts : DeploymentStatus(id, ready)
    \/ \E class \in IngressClasses : ConfigChange(class)

SpecKeys == InitKeys /\ [][NextKeys]_vars

\* --------------------------------------------- the dashboard's handlers
Answered(req, response) == [req EXCEPT !.pc = "done", !.response = response]

Contains(output, word) == \E i \in 1..Len(output) : output[i] = word

\* handleHome from its entry to the rendering of the document: the template
\* is loaded (tmplErr: it cannot be), a request that is no POST gets the
\* page, the fields of a POST are trimmed and checked
handleHomeBegin(r, method, form, tmplErr) ==
    /\ reqs[r].pc = "idle"
    /\ LET req == [reqs[r] EXCEPT !.handler = "home", !.method = method, !.form = form]
           fields == Defaulted(Trimmed(form))
       IN  reqs' = [reqs EXCEPT ![r] =
               IF tmplErr
               THEN Answered(req, Plain(500, <<"Critical Error: Could not load index.html">>))
               ELSE IF method # "POST"
               THEN Answered(req, Page("", <<>>, FALSE))
               ELSE IF MissingRequired(fields)
               THEN Answered(req, Page("Validation Error: All fields are required",
                                       <<"Missing required fields">>, TRUE))
               ELSE [req EXCEPT !.pc = "write", !.doc = Yaml(fields)]]
    /\ UNCHANGED <<files, commands>>
    /\ UNCHANGED <<cluster, incarnation, ingressClassEnv, pass, ensured, lastPass, envSteps, queue>>

\* os.WriteFile(absPath, ...), which fails (writeErr) before it has written
handleHomeWrite(r, writeErr) ==
    /\ reqs[r].pc = "write"
    /\ IF writeErr
       THEN /\ reqs' = [reqs EXCEPT ![r] =
                   Answered(@, Page("Internal Error: Could not write YAML file",
                                    <<"open:", "permission", "denied">>, TRUE))]
            /\ UNCHANGED files
       ELSE /\ files' = [files EXCEPT ![Path(reqs[r].doc.metadata.name)] = reqs[r].doc]
            /\ reqs' = [reqs EXCEPT ![r].pc = "apply"]
    /\ UNCHANGED commands
    /\ UNCHANGED <<cluster, incarnation, ingressClassEnv, pass, ensured, lastPass, envSteps, queue>>

\* what kubectl answers for the file it is given
Applied(file, outcome) ==
    IF file.exists THEN outcome
    ELSE [output |-> <<"error:", "the", "path", "does", "not", "exist">>, err |-> TRUE]

\* exec.Command("kubectl", "apply", "-f", absPath).CombinedOutput(): kubectl
\* reads the file that is at the path now
handleHomeApply(r, outcome) ==
    /\ reqs[r].pc = "apply"
    /\ LET path == Path(reqs[r].doc.metadata.name)
       IN  /\ commands' = Append(commands,
                                 [by |-> r,
                                  argv |-> <<"kubectl", "apply", "-f">> \o path,
                                  read |-> files[path]])
           /\ reqs' = [reqs EXCEPT ![r].pc = "respond",
                                   ![r].out = Applied(files[path], outcome)]
    /\ UNCHANGED files
    /\ UNCHANGED <<cluster, incarnation, ingressClassEnv, pass, ensured, lastPass, envSteps, queue>>

\* a variant that goes by the exit of the command alone
ClassifiedByExit(out) ==
    IF out.err
    THEN Page("Deployment Failed", out.output, TRUE)
    ELSE Page("Application Deployed Successfully!", out.output, FALSE)

\* the result as the page reports it
Classified(out) ==
    IF \/ Contains(out.output, "created")
       \/ Contains(out.output, "configured")
       \/ Contains(out.output, "unchanged")
    THEN Page("Application Deployed Successfully!", out.output, FALSE)
    ELSE IF out.err
    THEN Page("Deployment Failed", out.output, TRUE)
    ELSE Page("Application Deployed Successfully!", out.output, FALSE)

\* the page is rendered with the result and handleHome returns: the
\* deferred os.Remove(absPath) runs
handleHomeRespond(r) ==
    /\ reqs[r].pc = "respond"
    /\ reqs' = [reqs EXCEPT ![r] = Answered(@, Classified(reqs[r].out))]
    /\ files' = [files EXCEPT ![Path(reqs[r].doc.metadata.name)] = NoFile]
    /\ UNCHANGED commands
    /\ UNCHANGED <<cluster, incarnation, ingressClassEnv, pass, ensured, lastPass, envSteps, queue>>

\* handleList: kubectl get simpleapps -A -o json
handleList(r, method, outcome) ==
    /\ reqs[r].pc = "idle"
    /\ commands' = Append(commands,
                          [by |-> r,
                           argv |-> <<"kubectl", "get", "simpleapps", "-A", "-o", "json">>,
                           read |-> NoFile])
    /\ reqs' = [reqs EXCEPT ![r] =
                   Answered([@ EXCEPT !.handler = "list", !.method = method,
                                      !.out = outcome],
                            Plain(200, IF outcome.err THEN <<"{\"items\": []}">>
                                       ELSE outcome.output))]
    /\ UNCHANGED files
    /\ UNCHANGED <<cluster, incarnation, ingressClassEnv, pass, ensured, lastPass, envSteps, queue>>

\* a variant that serves every method
DeleteAllowsAny(method) == TRUE

\* `r.Method != http.MethodDelete' is answered 405
DeleteAllows(method) == method = "DELETE"

\* handleDelete: kubectl delete simpleapp <name> -n <namespace>
handleDelete(r, method, name, namespace, outcome) ==
    /\ reqs[r].pc = "idle"
    /\ LET req == [reqs[r] EXCEPT !.handler = "delete", !.method = method,
                                  !.query = [name |-> name, namespace |-> namespace]]
       IN  IF ~DeleteAllows(method)
           THEN /\ reqs' = [reqs EXCEPT ![r] =
                       Answered(req, Plain(405, <<"Method Not Allowed">>))]
                /\ UNCHANGED commands
           ELSE IF name = <<>> \/ namespace = <<>>
           THEN /\ reqs' = [reqs EXCEPT ![r] =
                       Answered(req, Plain(400, <<"Missing 'name' or 'namespace' parameter">>))]
                /\ UNCHANGED commands
           ELSE /\ commands' = Append(commands,
                                      [by |-> r,
                                       argv |-> <<"kubectl", "delete", "simpleapp">>
                                                   \o name \o <<"-n">> \o namespace,
                                       read |-> NoFile])
                /\ reqs' = [reqs EXCEPT ![r] =
                       Answered([req EXCEPT !.out = outcome],
                                IF outcome.err
                                THEN Plain(500, <<"Failed to delete resource: ">>
                                                    \o outcome.output)
                                ELSE Plain(200, <<"Resource deleted successfully">>))]
    /\ UNCHANGED files
    /\ UNCHANGED <<cluster, incarnation, ingressClassEnv, pass, ensured, lastPass, envSteps, queue>>

\* http.ListenAndServe: every request is served in a goroutine of its own
NextDashboard ==
    \/ \E r \in Requests, method \in Methods, form \in Forms, tmplErr \in BOOLEAN :
          handleHomeBegin(r, method, form, tmplErr)
    \/ \E r \in Requests, writeErr \in BOOLEAN : handleHomeWrite(r, writeErr)
    \/ \E r \in Requests, outcome \in Outcomes : handleHomeApply(r, outcome)
    \/ \E r \in Requests : handleHomeRespond(r)
    \/ \E r \in Requests, method \in Methods, outcome \in Outcomes :
          handleList(r, method, outcome)
    \/ \E r \in Requests, method \in Methods, name \in QueryValues,
          namespace \in QueryNamespaces, outcome \in Outcomes :
          handleDelete(r, method, name, namespace, outcome)

\* the dashboard before its first request; it reads nothing of the
\* operator's state, which is taken as it is before the first declaration
InitDashboard ==
    /\ Init
    /\ ingressClassEnv = ""
    /\ \A id \in ObjIds : ~cluster[id].exists

SpecDashboard == InitDashboard /\ [][NextDashboard]_vars

TypeOK ==
    /\ \A id \in ObjIds : incarnation[id] \in Nat
    /\ envSteps \in 0..MaxEnvSteps
    /\ ingressClassEnv \in IngressClasses
    /\ pass.pc \in {"Idle", "Done", "Failed", "Panicked", "updateStatus"}
                   \cup {"ensure" \o kind : kind \in DepKinds}
                   \cup {"create" \o kind : kind \in DepKinds}
                   \cup {"update" \o kind : kind \in DepKinds}


\* ------------------------------------------------- reading the call log
Calls(kind, verbs) ==
    {i \in 1..Len(pass.log) : pass.log[i].kind = kind /\ pass.log[i].verb \in verbs}

OkCalls(kind, verbs) == {i \in Calls(kind, verbs) : pass.log[i].err = ""}

MutatingVerbs == {"Create", "Update", "Delete"}

\* the pass found its declaration
Fetched == pass.fetched.exists

\* the pass has ended with success, for a declaration it found
Succeeded == pass.pc = "Done" /\ Fetched

Live(kind) == cluster[DepId(kind, pass.req)]

\* nobody has written the object since the ensure operation returned it
Untouched(kind) ==
    /\ pass.obs[kind].exists
    /\ Live(kind).exists
    /\ Live(kind).uid = pass.obs[kind].uid
    /\ Live(kind).rv = pass.obs[kind].rv

\* the ensure operation read the object as it was when the pass began
ReadAsFound(kind) ==
    /\ pass.pre[kind].exists
    /\ \E i \in OkCalls(kind, {"Get"}) : pass.log[i].rv = pass.pre[kind].rv

\* the ensure operation found no object, as when the pass began
ReadNotFound(kind) ==
    /\ ~pass.pre[kind].exists
    /\ \E i \in Calls(kind, {"Get"}) : pass.log[i].err = "NotFound"

\* nobody but the pass has created an object under the name since the pass
\* began
NotCreatedByOthers(kind) ==
    incarnation[DepId(kind, pass.req)]
        = pass.preInc[kind] + Cardinality(OkCalls(kind, {"Create"}))

\* ------------------------------------------------------------------ claims

\* C1: idempotence of the ensure operations.  When ensureDeployment,
\* ensureService or ensureIngress runs directly after a successful run of
\* itself, with the same declaration, the same INGRESS_CLASS_NAME and the
\* live object as the first run left it, it is never about to issue, and has
\* never issued, a create, update or delete call.
C1_Idempotent ==
    \A kind \in DepKinds :
        pass.idem[kind] =>
            /\ Calls(kind, MutatingVerbs) = {}
            /\ pass.pc \notin {"create" \o kind, "update" \o kind}

\* a pass has re-run all three operations on objects an earlier pass wrote
C1_Witness ==
    /\ Succeeded
    /\ \A kind \in DepKinds : pass.idem[kind] /\ Live(kind).exists
    /\ Len(pass.log) = 4

\* C2: create-then-converge.  A successful pass for a declaration that had
\* no dependents, with no class configured, leaves (as long as nobody else
\* creates or writes them) exactly one deployment, named as the declaration,
\* with the declared replicas, image and container port, exactly one
\* service, named as the declaration, forwarding servicePort to
\* containerPort, and no ingress.
C2_CreateThenConverge ==
    ( /\ Succeeded
      /\ \A kind \in DepKinds : ~pass.pre[kind].exists /\ NotCreatedByOthers(kind)
      /\ ingressClassEnv = ""
      /\ Untouched("Deployment")
      /\ Untouched("Service") )
    => LET cr == pass.fetched
           dep == Live("Deployment")
           svc == Live("Service")
       IN  /\ {id \in ObjIds : id.kind = "Deployment" /\ cluster[id].exists}
                 = {Id("Deployment", cr.namespace, cr.name)}
           /\ dep.replicas = <<cr.spec.replicas>>
           /\ Len(dep.containers) = 1
           /\ dep.containers[1].image = cr.spec.image
           /\ dep.containers[1].ports = <<cr.spec.containerPort>>
           /\ {id \in ObjIds : id.kind = "Service" /\ cluster[id].exists}
                 = {Id("Service", cr.namespace, cr.name)}
           /\ Len(svc.ports) = 1
           /\ svc.ports[1].port = cr.spec.servicePort
           /\ svc.ports[1].targetPort = FromInt(cr.spec.containerPort)
           /\ {id \in ObjIds : id.kind = "Ingress" /\ cluster[id].exists} = {}

C2_Witness ==
    /\ Succeeded
    /\ \A kind \in DepKinds : ~pass.pre[kind].exists /\ NotCreatedByOthers(kind)
    /\ ingressClassEnv = ""
    /\ Untouched("Deployment")
    /\ Untouched("Service")
    /\ pass.fetched.spec = BaseSpec
    /\ Live("Deployment").replicas = <<2>>
    /\ Live("Service").ports[1].port = 8080

\* C3: drift self-heal of the narrow fields.  A successful pass that read a
\* deployment whose replicas or image differ from the declaration's has
\* issued exactly one update call for it, and no create, and the deployment
\* (as long as nobody else writes it) has the declaration's replicas and
\* image.
C3_DriftSelfHeal ==
    LET cr == pass.fetched
        found == pass.pre["Deployment"]
    IN  ( /\ Succeeded
          /\ ReadAsFound("Deployment")
          /\ \/ found.replicas # <<cr.spec.replicas>>
             \/ found.containers[1].image # cr.spec.image )
        => /\ Cardinality(Calls("Deployment", {"Update"})) = 1
           /\ Calls("Deployment", {"Create"}) = {}
           /\ Untouched("Deployment") =>
                 /\ Live("Deployment").replicas = <<cr.spec.replicas>>
                 /\ Live("Deployment").containers[1].image = cr.spec.image

\* a deployment scaled to 5 by someone else is back at the declared 2
C3_Witness ==
    /\ Succeeded
    /\ ReadAsFound("Deployment")
    /\ pass.pre["Deployment"].replicas = <<5>>
    /\ pass.fetched.spec.replicas = 2
    /\ Untouched("Deployment")
    /\ Live("Deployment").replicas = <<2>>

\* an object with the fields the reconciler may change blanked
DeploymentFrame(obj) ==
    [obj EXCEPT !.replicas = <<>>, !.containers[1].image = "", !.rv = 0]

\* C4: no step of a pass changes a field of an existing deployment other
\* than replicas and image (and the resourceVersion the write bumps): the
\* selector, the labels, the container port, the owner references stay as
\* they were, and the deployment is not removed.
C4_NarrowDiffSurface ==
    [][ pass' # pass =>
          \A id \in ObjIds :
              (id.kind = "Deployment" /\ cluster[id].exists) =>
                  /\ cluster'[id].exists
                  /\ DeploymentFrame(cluster'[id]) = DeploymentFrame(cluster[id]) ]_vars

\* a pass has updated a deployment whose label someone else had edited
C4_Witness ==
    /\ Succeeded
    /\ ReadAsFound("Deployment")
    /\ pass.pre["Deployment"].labels = "edited"
    /\ OkCalls("Deployment", {"Update"}) # {}
    /\ Untouched("Deployment")
    /\ Live("Deployment").labels = "edited"
    /\ Live("Deployment").replicas = <<pass.fetched.spec.replicas>>

\* C5: route creation.  A successful pass that ran with a class C and found
\* no ingress has issued exactly one create call for the ingress, and the
\* ingress (as long as nobody else writes it) is named <name>-ingress, has
\* the class reference C and one rule, host <name>.local, with one path /
\* whose backend is the service <name> on the declaration's servicePort.
C5_RouteCreation ==
    LET cr == pass.fetched
        ing == Live("Ingress")
    IN  ( /\ Succeeded
          /\ ingressClassEnv # ""
          /\ ReadNotFound("Ingress") )
        => /\ Cardinality(OkCalls("Ingress", {"Create"})) = 1
           /\ Calls("Ingress", {"Update"}) = {}
           /\ Untouched("Ingress") =>
                 /\ ing.name = cr.name \o "-ingress"
                 /\ ing.namespace = cr.namespace
                 /\ ing.ingressClassName = <<ingressClassEnv>>
                 /\ Len(ing.rules) = 1
                 /\ ing.rules[1].host = cr.name \o ".local"
                 /\ Len(ing.rules[1].paths) = 1
                 /\ ing.rules[1].paths[1].path = "/"
                 /\ ing.rules[1].paths[1].backend.name = cr.name
                 /\ ing.rules[1].paths[1].backend.port = cr.spec.servicePort

C5_Witness ==
    /\ Succeeded
    /\ ingressClassEnv = "nginx"
    /\ ReadNotFound("Ingress")
    /\ Untouched("Ingress")
    /\ Live("Ingress").name = "a-ingress"
    /\ Live("Ingress").rules[1].host = "a.local"
    /\ Live("Ingress").ingressClassName = <<"nginx">>


\* the declaration is as the pass last read or wrote it
DeclarationUntouched ==
    LET live == cluster[AppId(pass.req)] IN
    /\ live.exists
    /\ live.uid = pass.simpleApp.uid
    /\ live.rv = pass.simpleApp.rv

AllVerbs == {"Get", "Create", "Update", "Delete", "StatusUpdate"}

\* C6: route-class gating.  With INGRESS_CLASS_NAME empty, ensureIngress
\* is one step that issues no call, returns no ingress and no error and
\* leaves the store alone; no step of a pass changes or removes an ingress;
\* and a declaration that had no ingress when the pass began has none once
\* ensureIngress has returned (as long as nobody else creates one).
C6_RouteClassGating ==
    /\ [][ (pass.pc = "ensureIngress" /\ ingressClassEnv = "" /\ pass' # pass) =>
              /\ pass'.pc = "updateStatus"
              /\ pass'.err = ""
              /\ pass'.log = pass.log
              /\ pass'.obs["Ingress"] = NoObj
              /\ cluster' = cluster ]_vars
    /\ [][ (ingressClassEnv = "" /\ pass' # pass) =>
              \A id \in ObjIds : id.kind = "Ingress" => cluster'[id] = cluster[id] ]_vars
    /\ []( ( /\ Fetched
             /\ ingressClassEnv = ""
             /\ pass.pc \in {"updateStatus", "Done"} )
           => /\ Calls("Ingress", AllVerbs) = {}
              /\ (~pass.pre["Ingress"].exists /\ NotCreatedByOthers("Ingress"))
                    => ~Live("Ingress").exists )

\* a pass has succeeded without a class and the ingress of an earlier pass
\* still has its class
C6_Witness ==
    /\ Succeeded
    /\ ingressClassEnv = ""
    /\ pass.pre["Ingress"].exists
    /\ Live("Ingress") = pass.pre["Ingress"]
    /\ Live("Ingress").ingressClassName = <<"nginx">>

\* C7: status mirroring.  When a pass has succeeded, it has issued a status
\* write if and only if the readyReplicas it fetched with the declaration
\* differed from those of the deployment its ensureDeployment returned, and
\* the stored readyReplicas (as long as nobody else writes the declaration)
\* equal the deployment's.
C7_StatusMirroring ==
    Succeeded =>
        LET observed == pass.obs["Deployment"].readyReplicas
            writes == Calls("SimpleApp", {"StatusUpdate"})
        IN  /\ (writes # {}) <=> (pass.fetched.status.readyReplicas # observed)
            /\ Cardinality(writes) <= 1
            /\ DeclarationUntouched =>
                  cluster[AppId(pass.req)].status.readyReplicas = observed

\* the deployment reports 2 ready replicas and the pass has stored 2
C7_Witness ==
    /\ Succeeded
    /\ pass.obs["Deployment"].readyReplicas = 2
    /\ pass.fetched.status.readyReplicas = 0
    /\ OkCalls("SimpleApp", {"StatusUpdate"}) # {}
    /\ DeclarationUntouched
    /\ cluster[AppId(pass.req)].status.readyReplicas = 2

\* C8: a missing declaration is a successful no-op.  A pass whose fetch
\* answered not-found has ended with success after that one call; a pass
\* whose fetch answered another error has ended with that error after that
\* one call.
C8_MissingDeclaration ==
    pass.log # <<>> =>
        LET fetch == pass.log[1] IN
        /\ fetch.verb = "Get" /\ fetch.kind = "SimpleApp"
        /\ fetch.err = "NotFound" =>
              pass.pc = "Done" /\ pass.err = "" /\ Len(pass.log) = 1
        /\ fetch.err \notin {"", "NotFound"} =>
              pass.pc = "Failed" /\ pass.err = fetch.err /\ Len(pass.log) = 1

C8_Witness ==
    /\ pass.pc = "Done"
    /\ ~cluster[AppId(pass.req)].exists
    /\ pass.log = << Call("Get", "SimpleApp", "a", "NotFound", 0) >>

\* the step of Reconcile a call belongs to
StepOf(call) ==
    CASE call.kind = "SimpleApp" /\ call.verb = "Get" -> 0
      [] call.kind = "Deployment" -> 1
      [] call.kind = "Service" -> 2
      [] call.kind = "Ingress" -> 3
      [] call.kind = "SimpleApp" /\ call.verb = "StatusUpdate" -> 4

\* a not-found answer to a read is no error of the step
IsError(call) == call.err # "" /\ ~(call.verb = "Get" /\ call.err = "NotFound")

\* C9: fixed order and abort on the first error.  The calls of a pass come
\* in the order fetch, deployment, service, ingress, status, none of the
\* first three steps is left out before a later one, and a call that
\* returned an error is the last call of the pass, which has ended with
\* that error.
C9_FixedOrderAbort ==
    LET log == pass.log IN
    /\ \A i, j \in 1..Len(log) : i < j => StepOf(log[i]) <= StepOf(log[j])
    /\ \A j \in 1..Len(log) :
          \A step \in 0..2 :
              step < StepOf(log[j]) => \E i \in 1..j : StepOf(log[i]) = step
    /\ \A i \in 1..Len(log) :
          IsError(log[i]) =>
              /\ i = Len(log)
              /\ pass.pc = "Failed"
              /\ pass.err = log[i].err
    /\ pass.pc = "Failed" => log # <<>> /\ IsError(log[Len(log)])

\* the service could not be created: the pass has failed there
C9_Witness ==
    /\ pass.pc = "Failed"
    /\ pass.err = "ServerError"
    /\ Len(pass.log) = 5
    /\ pass.log[5].verb = "Create" /\ pass.log[5].kind = "Service"
    /\ pass.log[3].verb = "Create" /\ pass.log[3].err = ""

\* the pass follows a failed pass for the same, unchanged declaration, under
\* the same INGRESS_CLASS_NAME
RetryOfPartial ==
    /\ Fetched
    /\ lastPass.outcome = "Failed"
    /\ lastPass.req = pass.req
    /\ lastPass.fetched.uid = pass.fetched.uid
    /\ lastPass.fetched.spec = pass.fetched.spec
    /\ lastPass.ingressClassEnv = ingressClassEnv

\* C10: partial completion and retry.  When a pass has failed, the objects
\* it created are still there (as long as the declaration is).  In the next
\* pass for the unchanged declaration (and unchanged INGRESS_CLASS_NAME), an
\* ensure operation that reads an object the failed pass created, unchanged
\* since, issues no create and no update, and every create call is for an
\* object the pass read as missing.
C10_PartialCompletionRetry ==
    /\ (pass.pc = "Failed" /\ Fetched /\ DeclarationUntouched) =>
          \A kind \in CreatedKinds(pass.log) :
              Live(kind).exists /\ Live(kind).uid = pass.obs[kind].uid
    /\ RetryOfPartial =>
          \A kind \in DepKinds :
              /\ ( /\ kind \in lastPass.created
                   /\ ReadAsFound(kind)
                   /\ pass.pre[kind].rv = 1 )
                 => /\ Calls(kind, MutatingVerbs) = {}
                    /\ pass.pc \notin {"create" \o kind, "update" \o kind}
              /\ Calls(kind, {"Create"}) # {} =>
                    \E i \in Calls(kind, {"Get"}) : pass.log[i].err = "NotFound"

\* the failed pass created the deployment; the next pass has created the
\* service and issued nothing for the deployment
C10_Witness ==
    /\ Succeeded
    /\ RetryOfPartial
    /\ lastPass.created = {"Deployment"}
    /\ CreatedKinds(pass.log) = {"Service"}
    /\ Calls("Deployment", MutatingVerbs) = {}
    /\ ReadAsFound("Deployment")

\* the call the step has just logged, if any
NewCall(verb, kind) ==
    /\ Len(pass'.log) = Len(pass.log) + 1
    /\ pass'.log[Len(pass'.log)].verb = verb
    /\ pass'.log[Len(pass'.log)].kind = kind
    /\ pass'.log[Len(pass'.log)].err = ""

\* C11: owner reference on creation.  Every deployment, service and ingress
\* a pass creates is stored by the create call itself with an owner
\* reference, marked as controller, to the declaration the pass fetched (its
\* name and uid); and an ensure operation whose stamping of the reference
\* failed has issued no call of its own and has ended the pass with that
\* error.
C11_OwnerRefOnCreate ==
    /\ [][ \A kind \in DepKinds :
              NewCall("Create", kind) =>
                  LET obj == cluster'[DepId(kind, pass.req)] IN
                  /\ obj.exists
                  /\ obj.rv = 1
                  /\ ~cluster[DepId(kind, pass.req)].exists
                  /\ [kind |-> "SimpleApp", name |-> pass.fetched.name,
                      uid |-> pass.fetched.uid, controller |-> TRUE] \in obj.ownerRefs ]_vars
    /\ [](\A i \in 1..Len(pass.log) :
              pass.log[i].verb = "SetControllerReference" =>
                  /\ i = Len(pass.log)
                  /\ pass.pc = "Failed"
                  /\ pass.err = pass.log[i].err
                  /\ Calls(pass.log[i].kind, AllVerbs) = {})

\* the pass created the deployment and the service, each owned by the
\* declaration, and ended where the ingress could not be stamped
C11_Witness ==
    /\ pass.pc = "Failed"
    /\ pass.err = ReferenceError
    /\ pass.log[Len(pass.log)].kind = "Ingress"
    /\ CreatedKinds(pass.log) = {"Deployment", "Service"}
    /\ \A kind \in {"Deployment", "Service"} :
          /\ Untouched(kind)
          /\ \E ref \in Live(kind).ownerRefs :
                ref.controller /\ ref.uid = cluster[AppId(pass.req)].uid

\* C12: exclusive ownership.  When a pass has succeeded, the deployment and
\* the service named as the declaration, and with a class configured the
\* ingress named <name>-ingress, each carry (as long as nobody has written
\* them since the pass returned them) the controller reference to the
\* declaration the pass fetched, whoever created them.
C12_ExclusiveOwnership ==
    Succeeded =>
        \A kind \in DepKinds :
            (Untouched(kind) /\ (kind = "Ingress" => ingressClassEnv # "")) =>
                [kind |-> "SimpleApp", name |-> pass.fetched.name,
                 uid |-> pass.fetched.uid, controller |-> TRUE]
                    \in Live(kind).ownerRefs

\* the objects that belong to key k: the declaration, and the deployment,
\* service and ingress of the names derived from it
Owned(k) ==
    {id \in ObjIds :
        /\ id.namespace = k.namespace
        /\ \/ id.kind \in {"SimpleApp", "Deployment", "Service"} /\ id.name = k.name
           \/ id.kind = "Ingress" /\ id.name = k.name \o "-ingress"}

\* C13: cross-key isolation.  The objects of two different keys are
\* disjoint; every call a pass issues is for an object of its own key; and
\* no step of a pass changes an object of another key, so that passes for
\* different keys, in whatever order they follow one another, leave each
\* other's objects as they were.
C13_CrossKeyIsolation ==
    /\ [](\A k1, k2 \in Keys : k1 # k2 => Owned(k1) \cap Owned(k2) = {})
    /\ [](\A i \in 1..Len(pass.log) :
              Id(pass.log[i].kind, pass.req.namespace, pass.log[i].name) \in Owned(pass.req))
    /\ [][ pass' # pass =>
              \A k \in Keys :
                  k # pass'.req => \A id \in Owned(k) : cluster'[id] = cluster[id] ]_vars

\* a pass for key a-ingress has created its three objects, and the three
\* objects of key a are as the earlier pass for key a left them
C13_Witness ==
    /\ Succeeded
    /\ pass.req.name = "a-ingress"
    /\ CreatedKinds(pass.log) = DepKinds
    /\ \A kind \in DepKinds :
          LET a == [namespace |-> pass.req.namespace, name |-> "a"] IN
          /\ Untouched(kind)
          /\ ensured[a][kind].valid
          /\ cluster[DepId(kind, a)].exists
          /\ cluster[DepId(kind, a)] = ensured[a][kind].obj

\* C14: endpoint drift self-heal.  A successful pass that read a service
\* whose port differs from the declaration's servicePort, or whose target
\* port differs from the declaration's containerPort, has issued exactly one
\* update call for it, and no create, and the service (as long as nobody
\* else writes it) forwards servicePort to containerPort; a successful pass
\* that read a service where both match has issued no write for it.
C14_EndpointDriftSelfHeal ==
    LET cr == pass.fetched
        found == pass.pre["Service"]
    IN  (Succeeded /\ ReadAsFound("Service")) =>
            IF \/ found.ports[1].port # cr.spec.servicePort
               \/ found.ports[1].targetPort # FromInt(cr.spec.containerPort)
            THEN /\ Cardinality(Calls("Service", {"Update"})) = 1
                 /\ Calls("Service", {"Create"}) = {}
                 /\ Untouched("Service") =>
                       Live("Service").ports =
                           << [port |-> cr.spec.servicePort,
                               targetPort |-> FromInt(cr.spec.containerPort)] >>
            ELSE Calls("Service", MutatingVerbs) = {}

\* a service whose target someone else had set to 3000 forwards 8080 to 80
\* again
C14_Witness ==
    /\ Succeeded
    /\ ReadAsFound("Service")
    /\ pass.pre["Service"].ports[1].targetPort = FromInt(3000)
    /\ pass.fetched.spec = BaseSpec
    /\ OkCalls("Service", {"Update"}) # {}
    /\ Untouched("Service")
    /\ Live("Service").ports = << [port |-> 8080, targetPort |-> FromInt(80)] >>

\* C15: route class self-heal.  A successful pass that ran with a class C
\* and read an ingress whose class reference is not C (an ingress without a
\* class reference included) has issued exactly one update call for it, and
\* the ingress (as long as nobody else writes it) has the class reference C;
\* a successful pass that read an ingress with the class reference C has
\* issued no write for it.
C15_RouteClassSelfHeal ==
    LET found == pass.pre["Ingress"]
        C == pass.ingressClassName
    IN  (Succeeded /\ C # "" /\ ReadAsFound("Ingress")) =>
            IF found.ingressClassName # <<C>>
            THEN /\ Cardinality(Calls("Ingress", {"Update"})) = 1
                 /\ Untouched("Ingress") => Live("Ingress").ingressClassName = <<C>>
            ELSE Calls("Ingress", MutatingVerbs) = {}

\* C16: the class is resolved anew on every run of ensureIngress.  Every
\* run of ensureIngress acts on the value INGRESS_CLASS_NAME has when it
\* runs; so a successful pass that ran with a class Y and read an ingress
\* whose class reference was another class X has issued one update call for
\* it, and the ingress (as long as nobody else writes it) has the class
\* reference Y.
C16_ClassResolvedAnew ==
    /\ [][ (pass.pc = "ensureIngress" /\ pass' # pass) =>
              pass'.ingressClassName = ingressClassEnv ]_vars
    /\ []( ( /\ Succeeded
             /\ ingressClassEnv # ""
             /\ ReadAsFound("Ingress")
             /\ pass.pre["Ingress"].ingressClassName # <<>>
             /\ pass.pre["Ingress"].ingressClassName # <<ingressClassEnv>> )
           => /\ Cardinality(OkCalls("Ingress", {"Update"})) = 1
              /\ Untouched("Ingress") =>
                    Live("Ingress").ingressClassName = <<ingressClassEnv>> )

\* the operator was restarted with traefik instead of nginx, and the pass
\* has moved the ingress an earlier pass created from nginx to traefik
C16_Witness ==
    /\ Succeeded
    /\ ingressClassEnv = "traefik"
    /\ ReadAsFound("Ingress")
    /\ pass.pre["Ingress"].ingressClassName = <<"nginx">>
    /\ ensured[pass.req]["Ingress"].valid
    /\ Untouched("Ingress")
    /\ Live("Ingress").ingressClassName = <<"traefik">>

\* C17: read errors of the ensure operations.  A read of a deployment,
\* service or ingress that answered not-found has not ended the pass: the
\* operation is about to issue, or has issued as its next call, one create
\* call, and issues no other write.  A read that answered another error is
\* the last call of the pass, which has ended with that error, and the
\* operation has issued no create and no update.
C17_ReadErrors ==
    \A i \in 1..Len(pass.log) :
        LET call == pass.log[i] IN
        (call.kind \in DepKinds /\ call.verb = "Get") =>
            /\ call.err = "NotFound" =>
                  /\ IF i = Len(pass.log)
                     THEN pass.pc = "create" \o call.kind
                     ELSE /\ pass.log[i + 1].verb = "Create"
                          /\ pass.log[i + 1].kind = call.kind
                  /\ Cardinality(Calls(call.kind, {"Create"})) <= 1
                  /\ Calls(call.kind, {"Update"}) = {}
            /\ call.err \notin {"", "NotFound"} =>
                  /\ i = Len(pass.log)
                  /\ pass.pc = "Failed"
                  /\ pass.err = call.err
                  /\ Calls(call.kind, {"Create", "Update"}) = {}

\* the deployment was not found and has been created; the read of the
\* service failed, and the pass has ended there
C17_Witness ==
    /\ pass.pc = "Failed"
    /\ pass.err = "ServerError"
    /\ Len(pass.log) = 4
    /\ pass.log[2] = Call("Get", "Deployment", "a", "NotFound", 0)
    /\ pass.log[3] = Call("Create", "Deployment", "a", "", 1)
    /\ pass.log[4] = Call("Get", "Service", "a", "ServerError", 0)
    /\ Live("Deployment").exists
    /\ ~Live("Service").exists

\* C18: no retry inside a pass.  In one pass each ensure operation issues
\* at most one read and at most one create or update; a create or update
\* that returned an error is the last call of the pass, which has ended
\* with that very error.
C18_NoInternalRetry ==
    /\ \A kind \in DepKinds :
          /\ Cardinality(Calls(kind, {"Get"})) <= 1
          /\ Cardinality(Calls(kind, MutatingVerbs)) <= 1
    /\ \A i \in 1..Len(pass.log) :
          (pass.log[i].verb \in MutatingVerbs /\ pass.log[i].err # "") =>
              /\ i = Len(pass.log)
              /\ pass.pc = "Failed"
              /\ pass.err = pass.log[i].err

\* the update of a deployment someone had scaled to 5 failed: the pass has
\* ended after that one attempt and the deployment is still at 5
C18_Witness ==
    /\ pass.pc = "Failed"
    /\ pass.err = "ServerError"
    /\ Len(pass.log) = 3
    /\ pass.log[3].verb = "Update" /\ pass.log[3].kind = "Deployment"
    /\ pass.pre["Deployment"].replicas = <<5>>
    /\ Live("Deployment") = pass.pre["Deployment"]

\* C19: the only write to the declaration.  A step of a pass that changes a
\* declaration is the status update of the pass's own declaration: it sets
\* readyReplicas to the deployment's and leaves the spec, serviceStatus and
\* everything else (but the resourceVersion) as they were; and no pass
\* issues a create, update or delete call for a declaration.
C19_OnlyStatusWrite ==
    /\ [][ pass' # pass =>
              \A id \in ObjIds :
                  (id.kind = "SimpleApp" /\ cluster'[id] # cluster[id]) =>
                      /\ id = AppId(pass.req)
                      /\ NewCall("StatusUpdate", "SimpleApp")
                      /\ cluster[id].exists /\ cluster'[id].exists
                      /\ cluster'[id].spec = cluster[id].spec
                      /\ cluster'[id].status.serviceStatus = cluster[id].status.serviceStatus
                      /\ cluster'[id].status.readyReplicas
                            = pass.obs["Deployment"].readyReplicas
                      /\ [cluster'[id] EXCEPT !.status.readyReplicas = 0, !.rv = 0]
                            = [cluster[id] EXCEPT !.status.readyReplicas = 0, !.rv = 0] ]_vars
    /\ [](Calls("SimpleApp", MutatingVerbs) = {})

\* the pass has stored the 2 ready replicas of the deployment: the spec and
\* serviceStatus of the declaration are as the pass fetched them
C19_Witness ==
    LET live == cluster[AppId(pass.req)] IN
    /\ Succeeded
    /\ OkCalls("SimpleApp", {"StatusUpdate"}) # {}
    /\ live.exists
    /\ live.rv = pass.fetched.rv + 1
    /\ live.spec = pass.fetched.spec
    /\ live.status = [readyReplicas |-> 2, serviceStatus |-> ""]

IngressFrame(obj) == [obj EXCEPT !.ingressClassName = <<>>, !.rv = 0]

\* C23: the class is the only field of an ingress a pass patches.  The
\* update call of ensureIngress stores the class the pass resolved and
\* leaves the host rule, the paths, the backend service and port, the
\* legacy class annotation and the owner references of the ingress as they
\* were.
C23_ClassOnlyPatch ==
    [][ NewCall("Update", "Ingress") =>
          LET id == DepId("Ingress", pass.req) IN
          /\ cluster[id].exists /\ cluster'[id].exists
          /\ cluster'[id].ingressClassName = <<pass.ingressClassName>>
          /\ IngressFrame(cluster'[id]) = IngressFrame(cluster[id]) ]_vars

\* the pass has moved an ingress from nginx to traefik; its rule, backend,
\* annotation and owner are those of its creation
C23_Witness ==
    /\ Succeeded
    /\ OkCalls("Ingress", {"Update"}) # {}
    /\ Untouched("Ingress")
    /\ Live("Ingress").ingressClassName = <<"traefik">>
    /\ Live("Ingress").classAnnotation = <<"nginx">>
    /\ Live("Ingress").rules = pass.pre["Ingress"].rules
    /\ Live("Ingress").ownerRefs = pass.pre["Ingress"].ownerRefs
    /\ Live("Ingress").ownerRefs # {}

\* the object was created by a pass (it carries an owner reference)
EngineCreated(obj) == obj.exists /\ obj.ownerRefs # {}

\* C24: the legacy class annotation mirrors the class.  When a pass with a
\* class configured has succeeded, an ingress that a pass created, and on
\* which annotation and class reference agreed when the pass began and
\* when the pass read it (or which the pass created), carries (as long as
\* nobody else writes it) a
\* legacy class annotation equal to its class reference, also when the
\* configured class has changed since.
C24_AnnotationMirrorsClass ==
    ( /\ Succeeded
      /\ ingressClassEnv # ""
      /\ Untouched("Ingress")
      /\ EngineCreated(Live("Ingress"))
      /\ pass.pre["Ingress"].exists =>
            /\ ReadAsFound("Ingress")
            /\ pass.pre["Ingress"].ingressClassName # <<>>
            /\ pass.pre["Ingress"].ingressClassName = pass.pre["Ingress"].classAnnotation )
    => Live("Ingress").classAnnotation = Live("Ingress").ingressClassName

\* C25: workload and endpoint agree on the container port.  When a pass
\* has succeeded, the deployment and the service that passes created (as
\* long as nobody else has written them) are such that the service's target
\* port, the port of the deployment's container and the declaration's
\* containerPort are equal, also after an edit of containerPort.
C25_ContainerPortConsistency ==
    ( /\ Succeeded
      /\ Untouched("Deployment") /\ EngineCreated(Live("Deployment"))
      /\ Untouched("Service") /\ EngineCreated(Live("Service")) )
    => /\ Live("Service").ports[1].targetPort = FromInt(pass.fetched.spec.containerPort)
       /\ Live("Deployment").containers[1].ports = <<pass.fetched.spec.containerPort>>

\* C26: route and endpoint agree on the service port.  When a pass with a
\* class configured has succeeded, the service and the ingress that passes
\* created (as long as nobody else has written them) are such that the
\* backend port of the ingress, the port of the service and the
\* declaration's servicePort are equal, also after an edit of servicePort.
C26_ServicePortConsistency ==
    ( /\ Succeeded
      /\ ingressClassEnv # ""
      /\ Untouched("Service") /\ EngineCreated(Live("Service"))
      /\ Untouched("Ingress") /\ EngineCreated(Live("Ingress")) )
    => /\ Live("Service").ports[1].port = pass.fetched.spec.servicePort
       /\ Live("Ingress").rules[1].paths[1].backend.port = pass.fetched.spec.servicePort

\* the verbs of the calls a pass may log
PassVerbs == {"Get", "Create", "Update", "StatusUpdate", "SetControllerReference"}

\* C27: no pass deletes.  Every call a pass issues is a read, a create, an
\* update or a status update, never a delete, and no step of a pass removes
\* an object from the store, whatever the declaration (a missing one
\* included), the store and INGRESS_CLASS_NAME (an unset one included) are.
C27_NeverDeletes ==
    /\ [](\A i \in 1..Len(pass.log) : pass.log[i].verb \in PassVerbs)
    /\ [][ pass' # pass =>
              \A id \in ObjIds : cluster[id].exists => cluster'[id].exists ]_vars

\* the declaration is gone and its pass has ended with success, leaving the
\* deployment and the service it once created where they are
C27_Witness ==
    /\ pass.pc = "Done"
    /\ Len(pass.log) = 1
    /\ pass.log[1].err = "NotFound"
    /\ EngineCreated(cluster[DepId("Deployment", pass.req)])
    /\ EngineCreated(cluster[DepId("Service", pass.req)])

\* the calls of the pass to the API (stamping an owner reference is local)
ApiCalls == {i \in 1..Len(pass.log) : pass.log[i].verb # "SetControllerReference"}

\* the number of statements of Reconcile a pass at pc may still execute
Rank(pc) ==
    CASE pc = "ensureDeployment" -> 10
      [] pc \in {"createDeployment", "updateDeployment"} -> 9
      [] pc = "ensureService" -> 8
      [] pc \in {"createService", "updateService"} -> 7
      [] pc = "ensureIngress" -> 6
      [] pc \in {"createIngress", "updateIngress"} -> 5
      [] pc = "updateStatus" -> 4
      [] pc \in {"Done", "Failed"} -> 0
      [] OTHER -> 11

Running == pass.pc \notin {"Idle", "Done", "Failed"}

C30_CreateRace ==
    /\ [][ \A kind \in DepKinds :
              ( /\ pass.pc = "create" \o kind
                /\ Live(kind).exists
                /\ pass' # pass )
              => /\ pass'.pc = "Failed"
                 /\ pass'.err \in {"AlreadyExists", "ServerError"}
                 /\ pass'.log[Len(pass'.log)].verb = "Create"
                 /\ pass'.log[Len(pass'.log)].err = pass'.err
                 /\ cluster' = cluster ]_vars
    /\ [](\A kind \in lastPass.raced :
              ( /\ pass.req = lastPass.req
                /\ Live(kind).exists
                /\ OkCalls(kind, {"Get"}) # {} )
              => /\ Calls(kind, {"Create"}) = {}
                 /\ pass.pc # "create" \o kind
                 /\ \A i \in Calls(kind, {"Get"}) : pass.log[i].err # "NotFound")

\* the create of the ingress lost the race against another writer and the
\* pass failed; the next pass has found that writer's ingress and patched
\* its class
C30_Witness ==
    /\ Succeeded
    /\ lastPass.raced = {"Ingress"}
    /\ lastPass.req = pass.req
    /\ Calls("Ingress", {"Create"}) = {}
    /\ OkCalls("Ingress", {"Update"}) # {}
    /\ Live("Ingress").ownerRefs = {}
    /\ Live("Ingress").ingressClassName = <<ingressClassEnv>>

\* the dependents of key k match its declaration where the claim says so
Matches(k) ==
    LET app == cluster[AppId(k)]
        dep == cluster[DepId("Deployment", k)]
        svc == cluster[DepId("Service", k)]
    IN  app.exists =>
          /\ dep.exists /\ svc.exists
          /\ dep.replicas = <<app.spec.replicas>>
          /\ dep.containers[1].image = app.spec.image
          /\ svc.ports[1].port = app.spec.servicePort
          /\ svc.ports[1].targetPort = FromInt(app.spec.containerPort)
          /\ app.status.readyReplicas = dep.readyReplicas

\* the pass has issued no create, update, delete or status update
NoWrites ==
    /\ \A kind \in DepKinds : Calls(kind, MutatingVerbs) = {}
    /\ Calls("SimpleApp", {"StatusUpdate"}) = {}

DeployPosts ==
    {r \in Requests : /\ reqs[r].handler = "home"
                      /\ reqs[r].method = "POST"
                      /\ reqs[r].response # Plain(500, <<"Critical Error: Could not load index.html">>)}

CommandsBy(r) == {i \in 1..Len(commands) : commands[i].by = r}

\* a field of the form is empty once the white space around it is removed
Blank(s) == \A i \in 1..Len(s) : IsSpace(s[i])

\* the value of a field without the white space around it: the longest
\* part of s that neither begins nor ends with white space
Core(s) ==
    IF Blank(s) THEN <<>>
    ELSE LET first == CHOOSE i \in 1..Len(s) :
                          ~IsSpace(s[i]) /\ \A j \in 1..(i - 1) : IsSpace(s[j])
             last == CHOOSE i \in 1..Len(s) :
                         ~IsSpace(s[i]) /\ \A j \in (i + 1)..Len(s) : IsSpace(s[j])
         IN  SubSeq(s, first, last)

\* C21: validation of a deploy POST.  A deploy POST (that handleHome has
\* read the form of) in which name, image, replicas, containerPort or
\* servicePort is blank is answered with the validation error, has written
\* no document and has run no command.  Every other deploy POST goes on to
\* write a document, whatever the values of its fields are: the document
\* carries each field without the white space around it, and `default' as
\* the namespace when that field is blank.  A request that is answered
\* before the form is read (index.html cannot be loaded, or the request is
\* no POST) has written and run nothing either.
C21_FrontEndValidation ==
    /\ \A r \in DeployPosts :
          LET form == reqs[r].form IN
          IF \E f \in RequiredFields : Blank(form[f])
          THEN /\ reqs[r].pc = "done"
               /\ reqs[r].response
                     = Page("Validation Error: All fields are required",
                            <<"Missing required fields">>, TRUE)
               /\ ~reqs[r].doc.exists
               /\ CommandsBy(r) = {}
          ELSE /\ reqs[r].pc \in {"write", "apply", "respond", "done"}
               /\ reqs[r].doc.exists
               /\ reqs[r].doc.metadata.name = Core(form.name)
               /\ reqs[r].doc.metadata.namespace
                     = IF Blank(form.namespace) THEN <<"default">>
                       ELSE Core(form.namespace)
               /\ reqs[r].doc.spec
                     = [f \in RequiredFields \ {"name"} |-> Core(form[f])]
               /\ reqs[r].response
                     # Page("Validation Error: All fields are required",
                            <<"Missing required fields">>, TRUE)
    /\ \A r \in Requests :
          (reqs[r].handler = "home" /\ r \notin DeployPosts)
              => ~reqs[r].doc.exists /\ CommandsBy(r) = {}
    /\ \A p \in Paths :
          files[p].exists => \E r \in DeployPosts :
              /\ reqs[r].doc = files[p]
              /\ \A f \in RequiredFields : ~Blank(reqs[r].form[f])

\* one POST with a blank servicePort has been refused; one with a padded
\* name, a blank namespace and a replicas value that is no number has been
\* written as it is, under the namespace default, and applied
C21_Witness ==
    \E r1, r2 \in DeployPosts :
        /\ reqs[r1].form.servicePort = <<" ", "\t">>
        /\ reqs[r1].response.error
        /\ CommandsBy(r1) = {}
        /\ reqs[r2].form = OddForm
        /\ reqs[r2].pc = "done"
        /\ \E i \in CommandsBy(r2) :
              /\ commands[i].read.metadata = [name |-> <<"a">>, namespace |-> <<"default">>]
              /\ commands[i].read.spec.replicas = <<"many">>

\* the requests handleDelete has served
Deletes == {r \in Requests : reqs[r].handler = "delete"}

\* C22: deletion through the dashboard.  handleDelete has run a command
\* (one, kubectl delete simpleapp with the name and the namespace of the
\* query) exactly when the method is DELETE and name and namespace are both
\* non-empty; another method is answered 405, and a DELETE that lacks a
\* parameter 400, both without a command; a command that failed is answered
\* 500 and one that succeeded 200.
C22_FrontEndDeletion ==
    \A r \in Deletes :
        LET req == reqs[r]
            complete == req.query.name # <<>> /\ req.query.namespace # <<>>
        IN  /\ req.pc = "done"
            /\ CommandsBy(r) # {} <=> (req.method = "DELETE" /\ complete)
            /\ Cardinality(CommandsBy(r)) <= 1
            /\ \A i \in CommandsBy(r) :
                  commands[i].argv = <<"kubectl", "delete", "simpleapp">>
                                        \o req.query.name \o <<"-n">>
                                        \o req.query.namespace
            /\ req.response.status =
                  IF req.method # "DELETE" THEN 405
                  ELSE IF ~complete THEN 400
                  ELSE IF req.out.err THEN 500
                  ELSE 200

\* a GET of the delete endpoint with both parameters has been answered 405
\* and a DELETE has run its command and been answered 200
C22_Witness ==
    \E r1, r2 \in Deletes :
        /\ reqs[r1].method = "GET"
        /\ reqs[r1].query.name # <<>> /\ reqs[r1].query.namespace # <<>>
        /\ reqs[r1].response.status = 405
        /\ reqs[r2].method = "DELETE"
        /\ reqs[r2].response.status = 200
        /\ CommandsBy(r2) # {}

\* ----------------------------------------- claims on live objects and races
\* an object with the port list and the resourceVersion blanked
ServiceFrame(obj) == [obj EXCEPT !.ports = <<>>, !.rv = 0]

\* C33: the patch of ensureService.  The update call of ensureService
\* stores the service with the one port mapping built from the declaration
\* as its whole port list, and with its selector, type, owner references
\* and every other field as they were; and an ensure operation that has
\* read a service whose first port has the port and the target built from
\* the declaration has issued and is about to issue no write, whatever the
\* further ports, the selector and the type of that service are.
C33_EndpointPatchFrame ==
    /\ [][ NewCall("Update", "Service") =>
              LET id == DepId("Service", pass.req) IN
              /\ cluster[id].exists /\ cluster'[id].exists
              /\ cluster'[id].ports
                    = << [port |-> pass.simpleApp.spec.servicePort,
                          targetPort |-> FromInt(pass.simpleApp.spec.containerPort)] >>
              /\ ServiceFrame(cluster'[id]) = ServiceFrame(cluster[id]) ]_vars
    /\ []( ( /\ Fetched
             /\ ReadAsFound("Service")
             /\ pass.pre["Service"].ports[1]
                   = [port |-> pass.fetched.spec.servicePort,
                      targetPort |-> FromInt(pass.fetched.spec.containerPort)] )
           => /\ Calls("Service", MutatingVerbs) = {}
              /\ pass.pc \notin {"createService", "updateService"} )

\* a service that had port 9090, a further port, another selector and type
\* NodePort has been patched: its port list is the declared mapping alone,
\* its selector and type are still the edited ones
C33_Witness ==
    /\ Succeeded
    /\ OkCalls("Service", {"Update"}) # {}
    /\ Untouched("Service")
    /\ Len(pass.pre["Service"].ports) = 2
    /\ Len(Live("Service").ports) = 1
    /\ Live("Service").ports[1].port = pass.fetched.spec.servicePort
    /\ Live("Service").selector = "edited"
    /\ Live("Service").type = "NodePort"
    /\ Live("Service").ownerRefs = pass.pre["Service"].ownerRefs

\* the version of the object that the Get call of the pass returned
ReadVersion(kind) ==
    LET i == CHOOSE i \in OkCalls(kind, {"Get"}) : TRUE IN pass.log[i].rv

\* the step issues the call; it may fail
Issues(verb, kind) ==
    /\ Len(pass'.log) = Len(pass.log) + 1
    /\ pass'.log[Len(pass'.log)].verb = verb
    /\ pass'.log[Len(pass'.log)].kind = kind

\* C31: no lost update.  Every update a pass gets through (deployment,
\* service, ingress, status of the declaration) is of an object that still
\* has the version, and the identity, that the Get call of the same pass
\* returned, and differs from it only by what the pass patched.  An update
\* or status update issued for an object that another writer has written
\* or replaced since that Get fails, ends the pass with the error, and
\* leaves the store as it was.
C31_NoLostUpdate ==
    /\ [][ \A kind \in DepKinds :
              LET id == DepId(kind, pass.req) IN
              /\ NewCall("Update", kind) =>
                    /\ OkCalls(kind, {"Get"}) # {}
                    /\ cluster[id].exists
                    /\ cluster[id] = pass.existing
                    /\ cluster[id].rv = ReadVersion(kind)
                    /\ cluster'[id] = Updated(Patch(kind, cluster[id], pass.built[kind]))
              /\ ( /\ Issues("Update", kind)
                   /\ cluster[id] # pass.existing )
                  => /\ pass'.pc = "Failed"
                     /\ pass'.err \in {"Conflict", "NotFound", "ServerError"}
                     /\ cluster' = cluster ]_vars
    /\ [][ LET id == AppId(pass.req) IN
           /\ NewCall("StatusUpdate", "SimpleApp") =>
                 /\ cluster[id].exists
                 /\ cluster[id] = pass.fetched
                 /\ cluster[id].rv = ReadVersion("SimpleApp")
                 /\ cluster'[id].spec = cluster[id].spec
           /\ ( /\ Issues("StatusUpdate", "SimpleApp")
                /\ cluster[id] # pass.fetched )
               => /\ pass'.pc = "Failed"
                  /\ pass'.err \in {"Conflict", "NotFound", "ServerError"}
                  /\ cluster' = cluster ]_vars

\* the pass read a deployment with a foreign image and was about to
\* restore it when somebody scaled the deployment to 5: the update has
\* failed with a conflict and the deployment is as that writer left it
C31_Witness ==
    /\ pass.pc = "Failed"
    /\ pass.err = "Conflict"
    /\ pass.log[Len(pass.log)].verb = "Update"
    /\ pass.log[Len(pass.log)].kind = "Deployment"
    /\ Live("Deployment").rv = ReadVersion("Deployment") + 1
    /\ Live("Deployment").replicas = <<5>>
    /\ Live("Deployment").containers[1].image = "busybox"

\* C35: no ensure operation faults on a live object.  Whatever live object
\* the Get call of an ensure operation returns, a service without ports
\* included, the operation returns an object or an error: the pass is never
\* unwinding with a run-time panic.
C35_NoFault == pass.pc # "Panicked"

\* the step changes the declaration of key k, or a deployment, service or
\* ingress whose controller reference names the declaration of key k
Changes(k) ==
    \/ cluster'[AppId(k)] # cluster[AppId(k)]
    \/ \E kind \in DepKinds, name \in ObjNames :
          LET id == Id(kind, k.namespace, name)
              owned(obj) == /\ obj.exists
                            /\ \E ref \in obj.ownerRefs :
                                  ref.name = k.name /\ ref.controller
          IN  /\ cluster'[id] # cluster[id]
              /\ owned(cluster[id]) \/ owned(cluster'[id])

\* a pass for key k has begun
PassFor(k) == pass.pc # "Idle" /\ pass.req = k

\* C32: watch-triggered re-evaluation.  Every step that changes a
\* declaration, or a deployment, service or ingress owned by a declaration,
\* leaves the key of that declaration on the work queue, and a key on the
\* work queue is eventually followed by a pass for that key.
C32_WatchTriggers ==
    /\ [][ \A k \in DeclaredKeys : Changes(k) => k \in queue' ]_vars
    /\ \A k \in DeclaredKeys : (k \in queue) ~> (PassFor(k) /\ k \notin queue)

\* somebody has edited the class of the ingress that a pass created for
\* the declaration, and a pass for its key has begun since
C32_Witness ==
    \E k \in DeclaredKeys :
        /\ PassFor(k)
        /\ k \notin queue
        /\ pass.pc = "ensureDeployment"
        /\ cluster[DepId("Ingress", k)].exists
        /\ cluster[DepId("Ingress", k)].rv = 2
        /\ cluster[DepId("Ingress", k)].ownerRefs # {}
        /\ cluster[DepId("Ingress", k)].ingressClassName = <<"other">>
        /\ pass.log[1].rv = cluster[AppId(k)].rv

\* the ingress a pass has created for key k, if there is one
RouteOf(k) == cluster[DepId("Ingress", k)]

HasRoute(k) ==
    /\ RouteOf(k).exists
    /\ \E ref \in RouteOf(k).ownerRefs : ref.name = k.name /\ ref.controller

HostsOf(obj) == {obj.rules[i].host : i \in 1..Len(obj.rules)}

\* C34: route hosts are unique within a namespace only.  The ingress a
\* pass creates for a declaration has one host, <name>.local, made of the
\* declaration's name alone.  The ingresses of two declarations of one
\* namespace so have different names and different hosts, and the
\* ingresses of two declarations of the same name in different namespaces
\* have the same host.
C34_RouteHosts ==
    /\ \A k \in HostKeys :
          HasRoute(k) => HostsOf(RouteOf(k)) = {k.name \o ".local"}
    /\ \A k1, k2 \in HostKeys :
          (k1 # k2 /\ HasRoute(k1) /\ HasRoute(k2)) =>
              IF k1.namespace = k2.namespace
              THEN /\ RouteOf(k1).name # RouteOf(k2).name
                   /\ HostsOf(RouteOf(k1)) \cap HostsOf(RouteOf(k2)) = {}
              ELSE k1.name = k2.name
                      => HostsOf(RouteOf(k1)) = HostsOf(RouteOf(k2))

\* the three declarations have their ingresses: a.local in default and in
\* prod, a-ingress.local in default
C34_Witness ==
    /\ \A k \in HostKeys : HasRoute(k)
    /\ \E k1, k2 \in HostKeys :
          /\ k1.namespace # k2.namespace
          /\ HostsOf(RouteOf(k1)) = {"a.local"}
          /\ HostsOf(RouteOf(k2)) = {"a.local"}
    /\ \E k \in HostKeys : HostsOf(RouteOf(k)) = {"a-ingress.local"}

\* the apply commands the front-end has run
ApplyCommands == {i \in 1..Len(commands) : commands[i].argv[2] = "apply"}

\* C36: concurrent deploy requests do not interfere.  In every
\* interleaving of two deploy POSTs, the apply command of a request reads
\* the document rendered from the fields of that request, also when the
\* two requests carry the same name.
C36_OwnDocument ==
    \A i \in ApplyCommands :
        LET r == commands[i].by
        IN  /\ reqs[r].doc.exists
            /\ reqs[r].doc = Yaml(Defaulted(Trimmed(reqs[r].form)))
            /\ commands[i].read = reqs[r].doc

\* C37: front-end result classification.  A deploy request whose apply
\* command has run is answered with the error flag set exactly when the
\* command ended with an error and its output has none of the words
\* created, configured, unchanged; in every other case the success message
\* is reported, and the page carries the output of the command as it was
\* in both cases.
C37_Classification ==
    \A r \in Requests :
        (reqs[r].pc = "done" /\ reqs[r].handler = "home" /\ CommandsBy(r) # {}) =>
            LET out == reqs[r].out
                failed == /\ out.err
                          /\ ~Contains(out.output, "created")
                          /\ ~Contains(out.output, "configured")
                          /\ ~Contains(out.output, "unchanged")
            IN  /\ reqs[r].response.error = failed
                /\ reqs[r].response.message =
                       IF failed THEN "Deployment Failed"
                       ELSE "Application Deployed Successfully!"
                /\ reqs[r].response.output = out.output

\* the three cases have happened: a command that ended with an error and
\* wrote created is reported as a success, an error without any of the
\* words as a failure, and an empty output without error as a success
C37_Witness ==
    \E r1, r2 \in Requests :
        /\ r1 # r2
        /\ reqs[r1].pc = "done" /\ reqs[r1].handler = "home" /\ CommandsBy(r1) # {}
        /\ reqs[r2].pc = "done" /\ reqs[r2].handler = "home" /\ CommandsBy(r2) # {}
        /\ reqs[r1].out = [output |-> <<"simpleapp", "created">>, err |-> TRUE]
        /\ ~reqs[r1].response.error
        /\ reqs[r2].out.err
        /\ reqs[r2].response.error
        /\ reqs[r2].response.output = reqs[r2].out.output

====
